---- MODULE Spec2Model ----
(***************************************************************************)
(* Model of the AppleScript execution subsystem of maestro:                *)
(*   infrastructure/applescript/executor.go  (Executor, the retry loop of  *)
(*   ExecuteWithTimeout and the single attempt executeOnce)                *)
(*   domain/music errors (DomainError, IsRetryable, IsPermanent)           *)
(*   domain/music/values.go (Duration, Volume, TrackID)                    *)
(*   infrastructure/applescript PlayerRepository (the state decoder)       *)
(* One call of Execute / ExecuteWithTimeout is followed from entry to its  *)
(* return; the environment (the ambient context, the per-attempt deadline, *)
(* the delay timer, the maestro-exec subprocess) moves between the steps.  *)
(* Spec is the retry loop over executeOnce as written; SpecLoop is the     *)
(* retry loop alone, over an attempt that may return any category.         *)
(* SpecConc follows goroutines that call one Executor concurrently, step   *)
(* by step through their accesses to the shared configuration.  SpecTax    *)
(* builds, wraps and classifies one error value.  SpecDec runs one query   *)
(* or decode of the PlayerRepository (GetCurrentState, GetCurrentTrack,    *)
(* parsePlayerState, parseTrack) on an output line given character by      *)
(* character.  SpecLive is Spec under the fairness of a run that goes on.  *)
(* SpecVol builds and adjusts one Volume, SpecTrk constructs one Track,    *)
(* SpecTpl runs ExecuteTemplate in front of the retry loop, SpecMain is    *)
(* one run of cmd/maestro-exec, and SpecCtx makes WithContext and          *)
(* GetContext calls on one DomainError.                                    *)
(***************************************************************************)
EXTENDS Integers, Sequences, FiniteSets, TLC

\* ------------------------------------------------------------------ bounds
\* largest MaxRetries configuration explored (the configurations are -1..MaxMaxRetries)
MaxMaxRetries == 3
\* longest raw script text explored
MaxScriptLen == 2

\* largest number of fields of the lines built to miss the expected count
MaxFields == 7
\* number of goroutines that call one Executor concurrently
NumThreads == 2
\* how many times an error is wrapped into a DomainError with a cause
MaxWrapDepth == 1
\* how many WithContext calls are made on one error
MaxContextCalls == 3
\* how many operations are called on one Player
MaxPlayerOps == 4
\* how many AddTrack and RemoveTrack calls are made on one Playlist
MaxPlaylistOps == 4
\* width in bits of the machine integers of the value objects: Go's int is 64
\* bits wide; the model keeps its two's complement wrap at a width the checker
\* can enumerate, wide enough for the levels 0..100 and for sums that overflow
IntBits == 9

\* ------------------------------------------------------- program constants
\* DefaultExecutorConfig().DefaultTimeout, in milliseconds
DefaultTimeoutMs == 10000
\* time.Second / time.Millisecond
MsPerSecond == 1000

\* ------------------------------------------------------------------ text
\* Characters of the explored texts: a blank and a non-blank character.
Chars == {" ", "a"}

IsSpace(c) == c \in {" ", "\n"}

RECURSIVE TrimLeft(_)
TrimLeft(s) ==
    IF s = <<>> THEN <<>>
    ELSE IF IsSpace(Head(s)) THEN TrimLeft(Tail(s)) ELSE s

RECURSIVE TrimRight(_)
TrimRight(s) ==
    IF s = <<>> THEN <<>>
    ELSE IF IsSpace(s[Len(s)]) THEN TrimRight(SubSeq(s, 1, Len(s) - 1)) ELSE s

\* a trim that is forgotten
TrimSpaceNone(s) == s

\* strings.TrimSpace
TrimSpace(s) == TrimRight(TrimLeft(s))

SeqsUpTo(S, n) == UNION {[1..k -> S] : k \in 0..n}

\* ------------------------------------------------------- error taxonomy
\* The sentinel errors (categories) of the music domain.
Codes ==
    {"ErrTrackNotFound", "ErrInvalidTrackID", "ErrInvalidTrack",
     "ErrPlaylistNotFound", "ErrInvalidPlaylistID", "ErrInvalidPlaylist",
     "ErrPlaylistReadOnly", "ErrTrackAlreadyInPlaylist",
     "ErrPlayerNotAvailable", "ErrInvalidPlayerState", "ErrInvalidVolume",
     "ErrInvalidPosition", "ErrInvalidRepeatMode",
     "ErrQueueEmpty", "ErrInvalidQueuePosition",
     "ErrLibraryNotAvailable", "ErrSearchFailed", "ErrInvalidSearchQuery",
     "ErrOperationFailed", "ErrTimeout", "ErrPermissionDenied",
     "ErrInvalidOperation"}

\* Error values.  A nil error, an error of another package (no Unwrap chain),
\* a bare sentinel, and a *DomainError.
\* A message is a format text with its arguments: a name, a captured text
\* and a number ("", <<>> and 0 where the format has none).
Msg(format, name, text, number) ==
    [format |-> format, name |-> name, text |-> text, number |-> number]
Text(format) == Msg(format, "", <<>>, 0)

NoErr == [kind |-> "nil"]
PlainErr(t) == [kind |-> "plain", text |-> t]
Sentinel(c) == [kind |-> "sentinel", Code |-> c]
EmptyContext == [k \in {} |-> 0]

NewDomainError(code, message) ==
    [kind |-> "domain", Code |-> code, Message |-> message,
     Cause |-> NoErr, Context |-> EmptyContext]

NewDomainErrorWithCause(code, message, cause) ==
    [kind |-> "domain", Code |-> code, Message |-> message,
     Cause |-> cause, Context |-> EmptyContext]

WithContext(e, key, value) ==
    [e EXCEPT !.Context =
        [k \in (DOMAIN e.Context) \cup {key} |->
            IF k = key THEN value ELSE e.Context[k]]]

HasContext(e, key) == e.kind = "domain" /\ key \in DOMAIN e.Context

\* DomainError.IsRetryable
DomainIsRetryable(e) ==
    e.Code \in {"ErrTimeout", "ErrPlayerNotAvailable",
                "ErrLibraryNotAvailable", "ErrOperationFailed"}

\* a permanent classification that takes in the generic failure
DomainIsPermanentWide(e) ==
    e.Code \in {"ErrPermissionDenied", "ErrInvalidTrackID", "ErrInvalidPlaylistID",
                "ErrInvalidVolume", "ErrInvalidPosition", "ErrInvalidSearchQuery",
                "ErrPlaylistReadOnly", "ErrOperationFailed"}

\* DomainError.IsPermanent
DomainIsPermanent(e) ==
    e.Code \in {"ErrPermissionDenied", "ErrInvalidTrackID", "ErrInvalidPlaylistID",
                "ErrInvalidVolume", "ErrInvalidPosition", "ErrInvalidSearchQuery",
                "ErrPlaylistReadOnly"}

\* errors.As(err, &domainErr): the first *DomainError of the chain.  Only a
\* DomainError has an Unwrap, so the chain of any other error is the error itself.
IsDomain(err) == err.kind = "domain"

\* the error at the end of the Unwrap chain
RECURSIVE RootCause(_)
RootCause(e) == IF IsDomain(e) /\ e.Cause # NoErr THEN RootCause(e.Cause) ELSE e

\* a classification by the error at the end of the chain
IsRetryableByRoot(err) ==
    LET r == RootCause(err)
    IN IF IsDomain(r) THEN DomainIsRetryable(r)
       ELSE r.kind = "sentinel"
            /\ r.Code \in {"ErrTimeout", "ErrPlayerNotAvailable", "ErrLibraryNotAvailable"}

\* music.IsRetryable
IsRetryable(err) ==
    IF IsDomain(err) THEN DomainIsRetryable(err)
    ELSE err.kind = "sentinel"
         /\ err.Code \in {"ErrTimeout", "ErrPlayerNotAvailable", "ErrLibraryNotAvailable"}

\* music.IsPermanent
IsPermanent(err) ==
    IF IsDomain(err) THEN DomainIsPermanent(err)
    ELSE err.kind = "sentinel"
         /\ err.Code \in {"ErrPermissionDenied", "ErrInvalidTrackID", "ErrInvalidPlaylistID"}

\* ----------------------------------------------------------- music.Duration
\* NewDuration: negative seconds are clamped to zero
NewDuration(seconds) == IF seconds < 0 THEN 0 ELSE seconds

\* int(d.Seconds()): truncation toward zero of a time.Duration given in ms
TruncSeconds(ms) == IF ms >= 0 THEN ms \div MsPerSecond ELSE -((-ms) \div MsPerSecond)

\* NewDurationFromTime
NewDurationFromTime(ms) == NewDuration(TruncSeconds(ms))

\* music.WrapOperationTimeout (timeout is a music.Duration, in seconds)
WrapOperationTimeout(operation, timeout, cause) ==
    WithContext(
        WithContext(
            NewDomainErrorWithCause("ErrTimeout", Msg("operation '%s' timed out after %s", operation, <<>>, timeout), cause),
            "operation", operation),
        "timeout_seconds", timeout)

\* a constructor that keeps the level it is given
NewVolumeUnclamped(level) == level

\* music.NewVolume: the level clamped to 0..100
NewVolume(level) == IF level < 0 THEN 0 ELSE IF level > 100 THEN 100 ELSE level

\* music.NewPlayer (LastUpdated left out)
NewPlayer ==
    [State |-> "stopped", CurrentTrack |-> <<>>, Position |-> NewDuration(0),
     Volume |-> NewVolume(50), Shuffle |-> FALSE, Repeat |-> "off"]

\* a Player with its LastUpdated field: the time of the call that made or
\* changed it
PlayerAt(p, now) ==
    [f \in DOMAIN p \cup {"LastUpdated"} |-> IF f = "LastUpdated" THEN now ELSE p[f]]

\* ------------------------------------------------------------ the executor
\* per-attempt timeouts a caller passes to ExecuteWithTimeout, in ms: an
\* already expired one and one that is not a whole number of seconds
Timeouts == {0, 1500}

\* How the maestro-exec subprocess can end by itself: its exit code (0
\* success, 1 general failure, 2 timeout, 3 standing for any other code), what
\* it wrote to stdout and stderr, and whether copying its output failed.
ProcOutcomes ==
    {[code |-> 0, stdout |-> o, stderr |-> <<>>, io |-> FALSE] : o \in {<<>>, <<"a", " ">>}}
    \cup {[code |-> 0, stdout |-> <<>>, stderr |-> <<>>, io |-> TRUE]}
    \cup {[code |-> c, stdout |-> <<>>, stderr |-> <<" ", "a">>, io |-> FALSE] : c \in {1, 2, 3}}
    \cup {[code |-> 1, stdout |-> <<"a">>, stderr |-> <<>>, io |-> FALSE]}

\* the *exec.ExitError of a subprocess that exited with a code (-1: killed by a signal)
ExitError(code) == [kind |-> "exit", code |-> code]

\* The Duration field of a result is "unset" (never assigned), "attempt"
\* (time.Since the start of executeOnce) or "total" (time.Since the start of
\* ExecuteWithTimeout).

VARIABLES
    cfg,         \* *ExecutorConfig
    req,         \* the call: [api, timeout]
    pc,          \* position in ExecuteWithTimeout
    script,      \* the parameter script (the text passed, then its trimmed form)
    attempt,     \* the loop variable
    lastErr,     \* the local lastErr
    ctxErr,      \* ctx.Err() of the caller's context: "none", "Canceled", "DeadlineExceeded"
    sel,         \* the select of the inter-attempt wait: "poll", "parked", "ctx", "timer"
    timerReady,  \* the time.After channel holds a value
    opc,         \* position in executeOnce
    execCtxErr,  \* execCtx.Err() of the attempt's context
    proc,        \* the subprocess of the attempt: "none", "running", "exited", "killed"
    pdata,       \* what the subprocess left behind: exit code, stdout, stderr, copy error
    onceResult,  \* the *ExecuteResult executeOnce returned
    result,      \* the *ExecuteResult the call returned
    ret,         \* which return statement produced result
    calls,       \* number of executeOnce calls begun
    spawns,      \* number of subprocesses started
    waits,       \* number of inter-attempt waits begun
    hist,        \* outcome class of every finished attempt, in order
    obs          \* observations of the run the properties refer to

\* Goroutines that call one Executor concurrently.
VARIABLES
    threads,     \* per goroutine: the method called, its position, its locals
    cfgWriter    \* who stored e.config.ExecPath last: 0 (NewExecutor) or a goroutine

\* An error value and the answers of its classification queries.
VARIABLES
    terr,        \* the error under construction
    tq           \* the answers: who was asked, IsRetryable, IsPermanent

\* One query or decode of the PlayerRepository.
VARIABLES
    din,         \* what the script produced: the fields of the line, its padding
    xresult,     \* the *ExecuteResult of the query: Output, Error
    dret         \* what was called, whether it ran a decoder, and what it returned

\* One Volume value and the last operation on it.
VARIABLES
    vol,         \* the Volume: its level
    vop          \* the operation that produced it: name, argument, level before, text

\* One construction of a Track.
VARIABLES
    trkIn,       \* the arguments: id, title, artist, album, seconds of the duration
    trkRet       \* who built it (NewTrack or parseTrack) and what came back

\* One call of ExecuteTemplate.
VARIABLES
    tplIn,       \* the template name, the parameter map, whether runtime.Caller answers
    tpl          \* position of the call, substitution order taken, text passed on, result

\* One run of the script runner, cmd/maestro-exec.
VARIABLES
    mainIn,      \* its environment: standard input, a read error, osascript in PATH
    mainRun      \* its position, context, child process, streams and exit code

\* DomainError objects and the context calls made on the first of them.
VARIABLES
    objs,        \* the heap: the DomainError behind every pointer
    clog,        \* the WithContext calls made so far: key and value, in order
    cret         \* the last call: its name, its key and what it returned

\* One Player entity and the operations called on it.
VARIABLES
    plr,         \* the Player behind the pointer
    pop          \* the last operation: name, number, error, the Player before it

\* One Playlist entity and the calls made on it.
VARIABLES
    pls,         \* the Playlist behind the pointer, <<>> before NewPlaylist
    lop          \* the last call: name, argument, number, error, the Playlist before it

ctlRest == <<script, attempt, lastErr, sel, timerReady, result, ret, waits>>
ctlVars == <<pc, ctlRest>>
onceVars == <<opc, execCtxErr, proc, pdata, onceResult, calls, spawns, hist>>
callVars == <<req, ctxErr, obs, ctlVars, onceVars>>
execVars == <<cfg, callVars>>
concVars == <<threads, cfgWriter>>
\* the variables outside the executor's call
taxVars == <<terr, tq>>
decVars == <<din, xresult, dret>>
volVars == <<vol, vop>>
\* the variables of the value objects
trkVars == <<trkIn, trkRet>>
tplVars == <<tplIn, tpl>>
mainVars == <<mainIn, mainRun>>
ctxVars == <<objs, clog, cret>>
\* the variables of the entities
plrVars == <<plr, pop>>
plsVars == <<pls, lop>>
entVars == <<plrVars, plsVars>>
extVars == <<volVars, trkVars, tplVars, mainVars, ctxVars, entVars>>
restVars == <<concVars, taxVars, decVars, extVars>>
\* the variables outside the concurrent goroutines
notConc == <<callVars, taxVars, decVars, extVars>>
\* the variables outside the error taxonomy
notTax == <<execVars, concVars, decVars, extVars>>
\* the variables outside the decoder
notDec == <<execVars, concVars, taxVars, extVars>>
\* the executor, its goroutines, the taxonomy and the decoder
coreVars == <<execVars, concVars, taxVars, decVars>>
\* the variables outside the Volume
notVol == <<coreVars, trkVars, tplVars, mainVars, ctxVars, entVars>>
\* the variables outside the Track
notTrk == <<coreVars, volVars, tplVars, mainVars, ctxVars, entVars>>
\* the variables outside the script runner
notMain == <<coreVars, volVars, trkVars, tplVars, ctxVars, entVars>>
\* the value objects outside the templates
notTpl == <<volVars, trkVars, mainVars, ctxVars, entVars>>
\* the variables outside the context calls
notCtx == <<coreVars, volVars, trkVars, tplVars, mainVars, entVars>>
\* the variables outside the Player
notPlr == <<coreVars, volVars, trkVars, tplVars, mainVars, ctxVars, plsVars>>
\* the variables outside the Playlist
notPls == <<coreVars, volVars, trkVars, tplVars, mainVars, ctxVars, plrVars>>
vars == <<execVars, restVars>>

NoResult == [Output |-> <<>>, Error |-> NoErr, Duration |-> "unset", RetryCount |-> 0]
NoData == [code |-> 0, stdout |-> <<>>, stderr |-> <<>>, io |-> FALSE]
NoObs == [blank |-> FALSE, firedInWait |-> FALSE, firedAtCalls |-> -1,
          ctxAtReturn |-> "none", deadlineKill |-> FALSE,
          onceRet |-> "none", ectxAtReturn |-> "none", delays |-> <<>>]

Configs ==
    {[ExecPath |-> "maestro-exec", DefaultTimeout |-> DefaultTimeoutMs,
      MaxRetries |-> m, RetryDelay |-> 500] : m \in -1..MaxMaxRetries}

Requests ==
    {[api |-> "Execute", timeout |-> DefaultTimeoutMs]}
    \cup
    {[api |-> "ExecuteWithTimeout", timeout |-> t] : t \in Timeouts}

Scripts == SeqsUpTo(Chars, MaxScriptLen)

\* no call of the executor is under way
CallIdle ==
    /\ pc = "call"
    /\ attempt = 0
    /\ lastErr = NoErr
    /\ ctxErr = "none"
    /\ sel = "poll"
    /\ timerReady = FALSE
    /\ opc = "idle"
    /\ execCtxErr = "none"
    /\ proc = "none"
    /\ pdata = NoData
    /\ onceResult = NoResult
    /\ result = NoResult
    /\ ret = "none"
    /\ calls = 0
    /\ spawns = 0
    /\ waits = 0
    /\ hist = <<>>
    /\ obs = NoObs

\* the goroutines of the concurrency model, before any of them calls
Threads == 1..NumThreads

NoThread == [api |-> "none", pc |-> "idle", attempt |-> 0, execPath |-> "", cmdPath |-> ""]

ThreadsIdle ==
    /\ threads = [t \in Threads |-> NoThread]
    /\ cfgWriter = 0

\* no error is being classified
NoAnswer == [by |-> "none", retryable |-> FALSE, permanent |-> FALSE]

TaxIdle ==
    /\ terr = NoErr
    /\ tq = NoAnswer

\* nothing is being decoded
NoInput == [fields |-> <<<<>>>>, pad |-> FALSE, Error |-> NoErr]
NoReturn == [op |-> "none", decoder |-> "none", value |-> <<>>, err |-> NoErr]

DecIdle ==
    /\ din = NoInput
    /\ xresult = [Output |-> <<>>, Error |-> NoErr]
    /\ dret = NoReturn

\* no Volume has been built
NoVolumeOp == [op |-> "none", arg |-> 0, before |-> 0, text |-> <<>>]

VolIdle ==
    /\ vol = [level |-> 0]
    /\ vop = NoVolumeOp

\* no Track is being built
NoTrackArgs == [id |-> <<>>, title |-> <<>>, artist |-> <<>>, album |-> <<>>, seconds |-> 0]
NoTrackReturn == [op |-> "none", value |-> <<>>, err |-> NoErr]

TrkIdle ==
    /\ trkIn = NoTrackArgs
    /\ trkRet = NoTrackReturn

\* ExecuteTemplate is not called
NoTemplateInput == [name |-> "", params |-> <<>>, callerOk |-> TRUE]
NoTemplateCall == [pc |-> "none", order |-> <<>>, passed |-> <<>>, ret |-> NoResult]

TplIdle ==
    /\ tplIn = NoTemplateInput
    /\ tpl = NoTemplateCall

\* the script runner is not running
NoMainInput == [stdin |-> <<>>, readErr |-> FALSE, found |-> TRUE]
NoOutcome == [code |-> 0, stdout |-> <<>>]
NoMainRun ==
    [pc |-> "none", script |-> <<>>, ctxErr |-> "none", proc |-> "none",
     pout |-> NoOutcome, err |-> "none", output |-> <<>>, stdout |-> <<>>,
     stderr |-> Text(""), exit |-> -1, timedOut |-> FALSE]

MainIdle ==
    /\ mainIn = NoMainInput
    /\ mainRun = NoMainRun

\* no DomainError is allocated
NoContextCall == [op |-> "none", key |-> "", ptr |-> 0, value |-> "", exists |-> FALSE]

CtxIdle ==
    /\ objs = <<>>
    /\ clog = <<>>
    /\ cret = NoContextCall

\* no operation was called on the Player, no Playlist was made
NoPlayerOp ==
    [op |-> "none", arg |-> <<>>, n |-> 0, err |-> NoErr, before |-> <<>>, played |-> FALSE]
NoPlaylistOp ==
    [op |-> "none", arg |-> <<>>, n |-> 0, err |-> NoErr, before |-> <<>>, done |-> <<>>]

PlrIdle ==
    /\ plr = PlayerAt(NewPlayer, 0)
    /\ pop = NoPlayerOp

PlsIdle ==
    /\ pls = <<>>
    /\ lop = NoPlaylistOp

EntIdle == PlrIdle /\ PlsIdle

ExtIdle == VolIdle /\ TrkIdle /\ TplIdle /\ MainIdle /\ CtxIdle /\ EntIdle

\* the executor and the repository at rest
CoreIdle ==
    /\ cfg \in {c \in Configs : c.MaxRetries = 0}
    /\ req = [api |-> "Execute", timeout |-> DefaultTimeoutMs]
    /\ script = <<>>
    /\ CallIdle
    /\ ThreadsIdle
    /\ TaxIdle
    /\ DecIdle

Init ==
    /\ cfg \in Configs
    /\ req \in Requests
    /\ script \in Scripts
    /\ CallIdle
    /\ ExtIdle
    /\ ThreadsIdle
    /\ TaxIdle
    /\ DecIdle

\* ----------------------------------------------- ExecuteWithTimeout: pieces
\* ctx.Err() != nil
CtxDone(e) == e # "none"

\* the value of ctx.Err()
CtxErrValue(e) == IF CtxDone(e) THEN PlainErr(e) ELSE NoErr

\* a loop that stops one attempt early
LoopCondShort(a, m) == a < m

\* a loop that makes one attempt more
LoopCondLong(a, m) == a <= m + 1

\* the loop condition, attempt <= e.config.MaxRetries
LoopCond(a, m) == a <= m

\* a count of attempts instead of the loop index
RetryCountOfAttempts(a) == a + 1

\* result.RetryCount = attempt
RetryCountOf(a) == a

\* the result of the empty-script rejection
RejectedResult ==
    [Output |-> <<>>,
     Error |-> NewDomainError("ErrInvalidOperation", Text("AppleScript cannot be empty")),
     Duration |-> "unset", RetryCount |-> 0]

\* a loop that retries whatever the error is
ShouldStopNever(err) == FALSE

\* line 118: the permanent short-circuit of the loop
ShouldStop(err) == IsPermanent(err)

\* a cancellation result that counts the retries made so far
WaitCancelledResultRetries(a, c) ==
    [Output |-> <<>>,
     Error |-> NewDomainErrorWithCause("ErrTimeout", Text("context cancelled during retry"), CtxErrValue(c)),
     Duration |-> "total", RetryCount |-> a - 1]

\* a cancellation result that keeps no cause
WaitCancelledResultNoCause(a, c) ==
    [Output |-> <<>>,
     Error |-> NewDomainError("ErrTimeout", Text("context cancelled during retry")),
     Duration |-> "total", RetryCount |-> a]

\* the result returned when ctx.Done() wins the select of the wait
WaitCancelledResult(a, c) ==
    [Output |-> <<>>,
     Error |-> NewDomainErrorWithCause("ErrTimeout", Text("context cancelled during retry"), CtxErrValue(c)),
     Duration |-> "total", RetryCount |-> a]

\* a cancellation reported as a plain failure of the operation
CancelledErrorAsFailure(c) ==
    NewDomainErrorWithCause("ErrOperationFailed", Text("context cancelled"), CtxErrValue(c))

\* the error that replaces the attempt's error when ctx.Err() != nil after it
CancelledError(c) ==
    NewDomainErrorWithCause("ErrTimeout", Text("context cancelled"), CtxErrValue(c))

\* the result returned after the loop
ExhaustedResult(m, last) ==
    [Output |-> <<>>,
     Error |-> NewDomainErrorWithCause("ErrOperationFailed",
                    Msg("AppleScript execution failed after %d attempts", "", <<>>, m + 1), last),
     Duration |-> "total", RetryCount |-> m]

\* the class of an attempt's outcome
ClassOf(err) ==
    IF err = NoErr THEN "ok"
    ELSE IF IsPermanent(err) THEN "permanent"
    ELSE IF IsRetryable(err) THEN "retryable"
    ELSE "neither"

\* ------------------------------------------------------ environment steps
\* The caller's context is cancelled or passes its deadline.  The attempt's
\* context is its child; exec.CommandContext kills the subprocess.
Cancel ==
    /\ pc # "done"
    /\ ctxErr = "none"
    /\ \E e \in {"Canceled", "DeadlineExceeded"} :
        /\ ctxErr' = e
        /\ execCtxErr' = IF pc = "exec" /\ opc # "begin" /\ execCtxErr = "none"
                         THEN e ELSE execCtxErr
    /\ proc' = IF proc = "running" THEN "killed" ELSE proc
    /\ sel' = IF pc = "wait" /\ sel = "parked" THEN "ctx" ELSE sel
    /\ obs' = [obs EXCEPT !.firedInWait = (pc = "wait"),
                          !.firedAtCalls = calls]
    /\ UNCHANGED <<restVars, cfg, req, pc, script, attempt, lastErr, timerReady, result, ret, waits,
                   opc, pdata, onceResult, calls, spawns, hist>>

\* The time.After timer of the wait fires.
TimerFire ==
    /\ pc = "wait"
    /\ ~timerReady
    /\ timerReady' = TRUE
    /\ sel' = IF sel = "parked" THEN "timer" ELSE sel
    /\ UNCHANGED <<restVars, cfg, req, ctxErr, obs, pc, script, attempt, lastErr, result, ret, waits,
                   onceVars>>

\* The deadline of the attempt's context (context.WithTimeout) passes.
DeadlineFire ==
    /\ pc = "exec"
    /\ opc \in {"start", "write", "waitproc"}
    /\ execCtxErr = "none"
    /\ execCtxErr' = "DeadlineExceeded"
    /\ proc' = IF proc = "running" THEN "killed" ELSE proc
    /\ obs' = [obs EXCEPT !.deadlineKill = (proc = "running")]
    /\ UNCHANGED <<restVars, cfg, req, ctxErr, ctlVars, opc, pdata, onceResult, calls, spawns, hist>>

\* The subprocess exits by itself.
ProcExit ==
    /\ proc = "running"
    /\ proc' = "exited"
    /\ pdata' \in ProcOutcomes
    /\ UNCHANGED <<restVars, cfg, req, ctxErr, obs, ctlVars, opc, execCtxErr, onceResult, calls,
                   spawns, hist>>

\* ---------------------------------------------------- ExecuteWithTimeout
\* lines 80-89: trim, reject the empty script, set up the loop
Enter ==
    /\ pc = "call"
    /\ script' = TrimSpace(script)
    /\ IF script' = <<>>
       THEN /\ result' = RejectedResult
            /\ ret' = "rejected"
            /\ pc' = "done"
       ELSE /\ pc' = "loop"
            /\ UNCHANGED <<result, ret>>
    /\ attempt' = 0
    /\ lastErr' = NoErr
    /\ obs' = [obs EXCEPT !.blank = \A i \in DOMAIN script : IsSpace(script[i])]
    /\ UNCHANGED <<restVars, cfg, req, ctxErr, sel, timerReady, waits, onceVars>>

\* a delay that grows with the attempt number
RetryDelayLinear(c, n) == c.RetryDelay * n

\* line 101: the duration handed to time.After before attempt n
RetryDelayFor(c, n) == c.RetryDelay

\* line 91 true: the next iteration, which waits first when attempt > 0
LoopIter ==
    /\ pc = "loop"
    /\ LoopCond(attempt, cfg.MaxRetries)
    /\ IF attempt > 0
       THEN /\ pc' = "wait"
            /\ sel' = "poll"
            /\ timerReady' = FALSE
            /\ waits' = waits + 1
            /\ obs' = [obs EXCEPT !.delays = Append(@, RetryDelayFor(cfg, attempt))]
            /\ opc' = opc
       ELSE /\ pc' = "exec"
            /\ opc' = "begin"
            /\ UNCHANGED <<sel, timerReady, waits, obs>>
    /\ UNCHANGED <<restVars, cfg, req, ctxErr, script, attempt, lastErr, result, ret,
                   execCtxErr, proc, pdata, onceResult, calls, spawns, hist>>

\* line 91 false, lines 131-136
LoopExhausted ==
    /\ pc = "loop"
    /\ ~LoopCond(attempt, cfg.MaxRetries)
    /\ result' = ExhaustedResult(cfg.MaxRetries, lastErr)
    /\ ret' = "exhausted"
    /\ pc' = "done"
    /\ UNCHANGED <<restVars, cfg, req, ctxErr, obs, script, attempt, lastErr, sel, timerReady, waits,
                   onceVars>>

\* line 94: the select looks at its two channels; it takes a ready one (any
\* of them when both are ready) or parks until the first of them is ready
SelectPoll ==
    /\ pc = "wait"
    /\ sel = "poll"
    /\ LET ready == {c \in {"ctx", "timer"} :
                        \/ c = "ctx" /\ CtxDone(ctxErr)
                        \/ c = "timer" /\ timerReady}
       IN IF ready = {} THEN sel' = "parked" ELSE sel' \in ready
    /\ UNCHANGED <<restVars, cfg, req, ctxErr, obs, pc, script, attempt, lastErr, timerReady, result,
                   ret, waits, onceVars>>

\* lines 95-100
WaitCancelled ==
    /\ pc = "wait"
    /\ sel = "ctx"
    /\ result' = WaitCancelledResult(attempt, ctxErr)
    /\ ret' = "cancelledWait"
    /\ pc' = "done"
    /\ UNCHANGED <<restVars, cfg, req, ctxErr, obs, script, attempt, lastErr, sel, timerReady, waits,
                   onceVars>>

\* lines 101-103
WaitTimer ==
    /\ pc = "wait"
    /\ sel = "timer"
    /\ pc' = "exec"
    /\ opc' = "begin"
    /\ UNCHANGED <<restVars, cfg, req, ctxErr, obs, script, attempt, lastErr, sel, timerReady, result,
                   ret, waits, execCtxErr, proc, pdata, onceResult, calls, spawns, hist>>

\* lines 107-128: what the loop does with the result of executeOnce
Check ==
    /\ pc = "check"
    /\ LET r == [onceResult EXCEPT !.RetryCount = RetryCountOf(attempt)]
       IN IF r.Error = NoErr
          THEN /\ result' = [r EXCEPT !.Duration = "total"]
               /\ ret' = "success"
               /\ pc' = "done"
               /\ UNCHANGED <<attempt, lastErr>>
          ELSE /\ lastErr' = r.Error
               /\ IF ShouldStop(r.Error)
                  THEN /\ result' = [r EXCEPT !.Duration = "total"]
                       /\ ret' = "permanent"
                       /\ pc' = "done"
                       /\ UNCHANGED attempt
                  ELSE IF CtxDone(ctxErr)
                  THEN /\ result' = [r EXCEPT !.Error = CancelledError(ctxErr),
                                              !.Duration = "total"]
                       /\ ret' = "cancelledAttempt"
                       /\ pc' = "done"
                       /\ UNCHANGED attempt
                  ELSE /\ attempt' = attempt + 1
                       /\ pc' = "loop"
                       /\ UNCHANGED <<result, ret>>
    /\ UNCHANGED <<restVars, cfg, req, ctxErr, obs, script, sel, timerReady, waits, onceVars>>

\* ------------------------------------------------------------ executeOnce
\* a result of executeOnce that carries an error and no output
OnceError(err) ==
    [Output |-> <<>>, Error |-> err, Duration |-> "attempt", RetryCount |-> 0]

\* context.WithTimeout(ctx, timeout): the child of a done context is done
\* with the same error, and a timeout that is not positive has already expired
WithTimeout(ctx, timeout) ==
    IF CtxDone(ctx) THEN ctx
    ELSE IF timeout <= 0 THEN "DeadlineExceeded"
    ELSE "none"

\* a Start that does not look at the context
StartRefusesNever(ectx) == FALSE

\* cmd.Start of exec.CommandContext starts nothing when the context is done
StartRefuses(ectx) == CtxDone(ectx)

\* a Wait that does not block
WaitReturnsEarly(p) == TRUE

\* a Wait that never returns
WaitReturnsNever(p) == FALSE

\* line 187: cmd.Wait returns once the subprocess has exited or was killed
WaitReturns(p) == p \in {"exited", "killed"}

\* the error of cmd.Wait
WaitErr(p, d) ==
    IF p = "killed" THEN ExitError(-1)
    ELSE IF d.io THEN PlainErr("copy")
    ELSE IF d.code = 0 THEN NoErr
    ELSE ExitError(d.code)

\* an exit code switch that knows the general failure only
AttemptErrorGeneral(err, ectx, ctx, timeout, stderrOutput) ==
    IF ectx = "DeadlineExceeded"
    THEN WrapOperationTimeout("AppleScript execution", NewDurationFromTime(timeout), err)
    ELSE IF CtxDone(ctx)
    THEN NewDomainErrorWithCause("ErrTimeout", Text("context cancelled"), CtxErrValue(ctx))
    ELSE NewDomainErrorWithCause("ErrOperationFailed",
            Msg("AppleScript execution failed: %s", "", stderrOutput, 0), err)

\* an exit code switch that reports exit code 1 as a denied permission
AttemptErrorDenied(err, ectx, ctx, timeout, stderrOutput) ==
    IF ectx # "DeadlineExceeded" /\ ~CtxDone(ctx) /\ err.kind = "exit" /\ err.code = 1
    THEN NewDomainErrorWithCause("ErrPermissionDenied",
            Msg("AppleScript execution failed: %s", "", stderrOutput, 0), err)
    ELSE AttemptErrorGeneral(err, ectx, ctx, timeout, stderrOutput)

\* lines 195-223: the error of an attempt whose cmd.Wait returned err # nil
AttemptError(err, ectx, ctx, timeout, stderrOutput) ==
    IF ectx = "DeadlineExceeded"
    THEN WrapOperationTimeout("AppleScript execution", NewDurationFromTime(timeout), err)
    ELSE IF CtxDone(ctx)
    THEN NewDomainErrorWithCause("ErrTimeout", Text("context cancelled"), CtxErrValue(ctx))
    ELSE IF err.kind = "exit"
    THEN CASE err.code = 1 ->
                NewDomainErrorWithCause("ErrOperationFailed",
                    Msg("AppleScript execution failed: %s", "", stderrOutput, 0), err)
           [] err.code = 2 ->
                WrapOperationTimeout("AppleScript execution", NewDurationFromTime(timeout), err)
           [] OTHER ->
                NewDomainErrorWithCause("ErrOperationFailed",
                    Msg("AppleScript execution failed with exit code %d: %s", "", stderrOutput, err.code), err)
    ELSE NewDomainErrorWithCause("ErrOperationFailed",
            Msg("failed to execute AppleScript: %s", "", stderrOutput, 0), err)

\* executeOnce returns r: its deferred cancel releases the attempt's context
OnceReturn(r, o) ==
    /\ onceResult' = r
    /\ pc' = "check"
    /\ opc' = "idle"
    /\ execCtxErr' = "none"
    /\ hist' = Append(hist, ClassOf(r.Error))
    /\ obs' = [o EXCEPT !.ctxAtReturn = ctxErr, !.ectxAtReturn = execCtxErr]

\* lines 140-162: the attempt's context and command, the stdin pipe
OnceBegin ==
    /\ pc = "exec"
    /\ opc = "begin"
    /\ calls' = calls + 1
    /\ proc' = "none"
    /\ pdata' = NoData
    /\ LET o == [obs EXCEPT !.deadlineKill = FALSE]
       IN \/ OnceReturn(OnceError(NewDomainErrorWithCause("ErrOperationFailed",
                            Text("failed to create stdin pipe"), PlainErr("pipe"))),
                        [o EXCEPT !.onceRet = "pipe"])
          \/ /\ opc' = "start"
             /\ execCtxErr' = WithTimeout(ctxErr, req.timeout)
             /\ obs' = o
             /\ UNCHANGED <<pc, onceResult, hist>>
    /\ UNCHANGED <<restVars, cfg, req, ctxErr, ctlRest, spawns>>

\* lines 165-171: cmd.Start
OnceStart ==
    /\ pc = "exec"
    /\ opc = "start"
    /\ IF StartRefuses(execCtxErr)
       THEN /\ OnceReturn(OnceError(NewDomainErrorWithCause("ErrOperationFailed",
                            Text("failed to start maestro-exec"), PlainErr(execCtxErr))),
                        [obs EXCEPT !.onceRet = "start"])
            /\ UNCHANGED <<proc, spawns>>
       ELSE \/ /\ OnceReturn(OnceError(NewDomainErrorWithCause("ErrOperationFailed",
                            Text("failed to start maestro-exec"), PlainErr("exec"))),
                        [obs EXCEPT !.onceRet = "start"])
               /\ UNCHANGED <<proc, spawns>>
            \/ /\ proc' = "running"
               /\ spawns' = spawns + 1
               /\ opc' = "write"
               /\ UNCHANGED <<pc, execCtxErr, onceResult, hist, obs>>
    /\ UNCHANGED <<restVars, cfg, req, ctxErr, ctlRest, pdata, calls>>

\* lines 174-184: the script is written to the pipe; a failed write kills
\* and reaps the subprocess.  Writing to a subprocess that is gone fails.
OnceWrite ==
    /\ pc = "exec"
    /\ opc = "write"
    /\ LET failed == OnceError(NewDomainErrorWithCause("ErrOperationFailed",
                        Text("failed to write script to stdin"), PlainErr("EPIPE")))
       IN IF proc # "running"
          THEN /\ OnceReturn(failed, [obs EXCEPT !.onceRet = "write"])
               /\ UNCHANGED proc
          ELSE \/ /\ OnceReturn(failed, [obs EXCEPT !.onceRet = "write"])
                  /\ proc' = "killed"
               \/ /\ opc' = "waitproc"
                  /\ UNCHANGED <<pc, execCtxErr, onceResult, hist, obs, proc>>
    /\ UNCHANGED <<restVars, cfg, req, ctxErr, ctlRest, pdata, calls, spawns>>

\* lines 187-225: cmd.Wait returns once the subprocess is gone
OnceWait ==
    /\ pc = "exec"
    /\ opc = "waitproc"
    /\ WaitReturns(proc)
    /\ LET err == WaitErr(proc, pdata)
           r == [Output |-> TrimSpace(pdata.stdout), Error |-> NoErr,
                 Duration |-> "attempt", RetryCount |-> 0]
       IN IF err = NoErr
          THEN OnceReturn(r, [obs EXCEPT !.onceRet = "wait"])
          ELSE OnceReturn([r EXCEPT !.Error =
                    AttemptError(err, execCtxErr, ctxErr, req.timeout, TrimSpace(pdata.stderr))],
                    [obs EXCEPT !.onceRet = "wait"])
    /\ UNCHANGED <<restVars, cfg, req, ctxErr, ctlRest, proc, pdata, calls, spawns>>

\* ------------------------------------------------------------------ system
Next ==
    \/ Enter
    \/ LoopIter
    \/ LoopExhausted
    \/ SelectPoll
    \/ WaitCancelled
    \/ WaitTimer
    \/ Check
    \/ OnceBegin
    \/ OnceStart
    \/ OnceWrite
    \/ OnceWait
    \/ Cancel
    \/ TimerFire
    \/ DeadlineFire
    \/ ProcExit

Spec == Init /\ [][Next]_vars

\* The steps of the calling goroutine: it is always scheduled again.
ProgramStep ==
    \/ Enter
    \/ LoopIter
    \/ LoopExhausted
    \/ SelectPoll
    \/ WaitCancelled
    \/ WaitTimer
    \/ Check
    \/ OnceBegin
    \/ OnceStart
    \/ OnceWrite
    \/ OnceWait

\* The calls followed to their end: every configuration and request, with
\* an empty, a blank and a one-letter script.
InitLive ==
    /\ Init
    /\ Len(script) <= 1

\* The same program under the conditions of a run that goes on: the
\* goroutine keeps being scheduled, the timer of time.After fires, and a
\* started subprocess ends, by itself or killed when the deadline of the
\* attempt's context passes.
SpecLive ==
    /\ InitLive
    /\ [][Next]_vars
    /\ WF_vars(ProgramStep)
    /\ WF_vars(TimerFire)
    /\ WF_vars(DeadlineFire \/ ProcExit)

\* ---------------------------------------- the retry loop over any attempt
\* line 106 seen from the loop: executeOnce returns some *ExecuteResult, a
\* success or a DomainError of any category of the taxonomy.
AnyAttempt ==
    /\ pc = "exec"
    /\ opc = "begin"
    /\ calls' = calls + 1
    /\ \E r \in {[Output |-> <<"a">>, Error |-> NoErr, Duration |-> "attempt", RetryCount |-> 0]}
                \cup {OnceError(NewDomainErrorWithCause(c, Text("attempt failed"), PlainErr("cause"))) :
                        c \in Codes} :
        OnceReturn(r, obs)
    /\ UNCHANGED <<restVars, cfg, req, ctxErr, ctlRest, proc, pdata, spawns>>

NextLoop ==
    \/ Enter
    \/ LoopIter
    \/ LoopExhausted
    \/ SelectPoll
    \/ WaitCancelled
    \/ WaitTimer
    \/ Check
    \/ AnyAttempt
    \/ Cancel
    \/ TimerFire

SpecLoop == Init /\ [][NextLoop]_vars

\* ------------------------------------------- concurrent calls on one Executor
\* Goroutines call the methods of one *Executor; a step is one access to the
\* shared *ExecutorConfig.  No method takes a lock.  IsExecutable stores the
\* path LookPath found into e.config.ExecPath; a string is two words, so a
\* load that overlaps the store may see the old text, the new text, or a torn
\* mix of both.
Methods == {"Execute", "ExecuteWithTimeout", "ExecuteTemplate", "IsExecutable", "HealthCheck"}

\* the path NewExecutor got, and the path exec.LookPath resolves it to
FullPath(path) == IF path = "maestro-exec" THEN "/usr/local/bin/maestro-exec" ELSE path

\* exec.LookPath(path): the full path when the file is found
LookPath(path) ==
    IF path = "torn" THEN {"not found"} ELSE {FullPath(path), "not found"}

\* what a load of e.config.ExecPath by goroutine t can return
LoadExecPath(t) ==
    {cfg.ExecPath}
    \cup UNION {IF threads[u].execPath = cfg.ExecPath THEN {}
                ELSE {threads[u].execPath, "torn"} :
                    u \in {v \in Threads \ {t} : threads[v].pc = "storing"}}

\* a goroutine calls a method.  LoadScript of ExecuteTemplate reads a file
\* and may fail before any access to the configuration.
ConcCall(t) ==
    /\ threads[t].pc = "idle"
    /\ \E m \in Methods :
        \E next \in (CASE m \in {"Execute", "HealthCheck"} -> {"timeout"}
                      [] m = "ExecuteTemplate" -> {"timeout", "done"}
                      [] m = "ExecuteWithTimeout" -> {"loop"}
                      [] m = "IsExecutable" -> {"lookPath"}) :
            threads' = [threads EXCEPT ![t] = [NoThread EXCEPT !.api = m, !.pc = next]]
    /\ UNCHANGED <<cfg, cfgWriter, notConc>>

\* line 76: Execute loads e.config.DefaultTimeout
ConcTimeout(t) ==
    /\ threads[t].pc = "timeout"
    /\ cfg.DefaultTimeout = DefaultTimeoutMs
    /\ threads' = [threads EXCEPT ![t].pc = "loop"]
    /\ UNCHANGED <<cfg, cfgWriter, notConc>>

\* line 91: the loop condition loads e.config.MaxRetries
ConcLoop(t) ==
    /\ threads[t].pc = "loop"
    /\ threads' = [threads EXCEPT ![t].pc =
            IF LoopCond(threads[t].attempt, cfg.MaxRetries)
            THEN (IF threads[t].attempt > 0 THEN "delay" ELSE "once")
            ELSE "done"]
    /\ UNCHANGED <<cfg, cfgWriter, notConc>>

\* line 101: the wait loads e.config.RetryDelay
ConcDelay(t) ==
    /\ threads[t].pc = "delay"
    /\ cfg.RetryDelay > 0
    /\ threads' = [threads EXCEPT ![t].pc = "once"]
    /\ UNCHANGED <<cfg, cfgWriter, notConc>>

\* line 148: executeOnce loads e.config.ExecPath for its command; the
\* attempt then succeeds or fails.  IsExecutable makes one attempt.
ConcOnce(t) ==
    /\ threads[t].pc = "once"
    /\ \E path \in LoadExecPath(t) :
        \E ok \in BOOLEAN :
            threads' = [threads EXCEPT ![t] =
                [@ EXCEPT !.cmdPath = path,
                          !.pc = IF ok \/ threads[t].api = "IsExecutable"
                                 THEN "done" ELSE "loop",
                          !.attempt = IF ok \/ threads[t].api = "IsExecutable"
                                      THEN @ ELSE @ + 1]]
    /\ UNCHANGED <<cfg, cfgWriter, notConc>>

\* line 277: IsExecutable loads e.config.ExecPath and looks it up
ConcLookPath(t) ==
    /\ threads[t].pc = "lookPath"
    /\ \E path \in LoadExecPath(t) :
        \E found \in LookPath(path) :
            threads' = [threads EXCEPT ![t] =
                IF found = "not found"
                THEN [@ EXCEPT !.pc = "done"]
                ELSE [@ EXCEPT !.pc = "store", !.execPath = found]]
    /\ UNCHANGED <<cfg, cfgWriter, notConc>>

\* line 281: the store of e.config.ExecPath begins
ConcStoreBegin(t) ==
    /\ threads[t].pc = "store"
    /\ threads' = [threads EXCEPT ![t].pc = "storing"]
    /\ UNCHANGED <<cfg, cfgWriter, notConc>>

\* line 281: the store of e.config.ExecPath is complete
ConcStoreEnd(t) ==
    /\ threads[t].pc = "storing"
    /\ cfg' = [cfg EXCEPT !.ExecPath = threads[t].execPath]
    /\ cfgWriter' = t
    /\ threads' = [threads EXCEPT ![t].pc = "once"]
    /\ UNCHANGED notConc

InitConc ==
    /\ cfg \in {c \in Configs : c.MaxRetries \in {0, 1}}
    /\ req = [api |-> "Execute", timeout |-> DefaultTimeoutMs]
    /\ script = <<>>
    /\ CallIdle
    /\ ExtIdle
    /\ ThreadsIdle
    /\ TaxIdle
    /\ DecIdle

NextConc ==
    \E t \in Threads :
        \/ ConcCall(t)
        \/ ConcTimeout(t)
        \/ ConcLoop(t)
        \/ ConcDelay(t)
        \/ ConcOnce(t)
        \/ ConcLookPath(t)
        \/ ConcStoreBegin(t)
        \/ ConcStoreEnd(t)

SpecConc == InitConc /\ [][NextConc]_vars

\* ------------------------------------------------ the error taxonomy alone
\* An error is built (a bare sentinel, a DomainError of any category, an
\* error of another package), possibly wrapped as the cause of a DomainError,
\* and then classified by the methods of *DomainError or by the functions of
\* the package.
TaxErrors ==
    {Sentinel(c) : c \in Codes}
    \cup {NewDomainError(c, Text("test message")) : c \in Codes}
    \cup {PlainErr("other")}

\* the length of the Unwrap chain below an error
RECURSIVE WrapDepth(_)
WrapDepth(e) ==
    IF IsDomain(e) /\ e.Cause # NoErr THEN 1 + WrapDepth(e.Cause) ELSE 0

\* NewDomainErrorWithCause(code, message, terr)
TaxWrap ==
    /\ tq.by = "none"
    /\ WrapDepth(terr) < MaxWrapDepth
    /\ \E c \in Codes : terr' = NewDomainErrorWithCause(c, Text("wrapped"), terr)
    /\ UNCHANGED <<tq, notTax>>

\* err.IsRetryable(), err.IsPermanent() on a *DomainError
MethodClassify ==
    /\ tq.by = "none"
    /\ IsDomain(terr)
    /\ tq' = [by |-> "method", retryable |-> DomainIsRetryable(terr),
              permanent |-> DomainIsPermanent(terr)]
    /\ UNCHANGED <<terr, notTax>>

\* music.IsRetryable(err), music.IsPermanent(err)
PackageClassify ==
    /\ tq.by = "none"
    /\ tq' = [by |-> "package", retryable |-> IsRetryable(terr),
              permanent |-> IsPermanent(terr)]
    /\ UNCHANGED <<terr, notTax>>

InitTax ==
    /\ cfg \in {c \in Configs : c.MaxRetries = 0}
    /\ req = [api |-> "Execute", timeout |-> DefaultTimeoutMs]
    /\ script = <<>>
    /\ CallIdle
    /\ ExtIdle
    /\ ThreadsIdle
    /\ DecIdle
    /\ terr \in TaxErrors
    /\ tq = NoAnswer

NextTax ==
    \/ TaxWrap
    \/ MethodClassify
    \/ PackageClassify

SpecTax == InitTax /\ [][NextTax]_vars

\* ------------------------------------------------- the player state decoder
\* Texts are sequences of characters.  The text literals of the decoder:
Lit ==
    [stopped |-> <<"s", "t", "o", "p", "p", "e", "d">>,
     playing |-> <<"p", "l", "a", "y", "i", "n", "g">>,
     paused |-> <<"p", "a", "u", "s", "e", "d">>,
     buffering |-> <<"b", "u", "f", "f", "e", "r", "i", "n", "g">>,
     off |-> <<"o", "f", "f">>,
     all |-> <<"a", "l", "l">>,
     one |-> <<"o", "n", "e">>,
     true |-> <<"t", "r", "u", "e">>,
     missing |-> <<"m", "i", "s", "s", "i", "n", "g", " ", "v", "a", "l", "u", "e">>]

\* other texts the automation target or a faulty script may put in a field
Sample ==
    [Playing |-> <<"P", "l", "a", "y", "i", "n", "g">>,
     PAUSED |-> <<"P", "A", "U", "S", "E", "D">>,
     Buffering |-> <<"B", "u", "f", "f", "e", "r", "i", "n", "g">>,
     rewinding |-> <<"r", "e", "w", "i", "n", "d", "i", "n", "g">>,
     TRUE |-> <<"T", "R", "U", "E">>,
     false |-> <<"f", "a", "l", "s", "e">>,
     All |-> <<"A", "l", "l">>,
     ONE |-> <<"O", "N", "E">>,
     n50 |-> <<"5", "0">>,
     n150 |-> <<"1", "5", "0">>,
     neg5 |-> <<"-", "5">>,
     f5 |-> <<"5", ".", "5">>,
     x |-> <<"x">>,
     n7 |-> <<"7">>,
     f12 |-> <<"1", "2", ".", "7">>,
     neg3 |-> <<"-", "3", ".", "5">>,
     n180 |-> <<"1", "8", "0">>,
     n0 |-> <<"0">>,
     n75 |-> <<"7", "5">>,
     n100 |-> <<"1", "0", "0">>,
     n120 |-> <<"1", "2", "0">>,
     id42 |-> <<"4", "2">>,
     f200 |-> <<"2", "0", "0", ".", "9">>,
     id |-> <<"T", "1">>,
     title |-> <<"S", "o", "n", "g">>,
     artist |-> <<"A", "n", "n">>,
     album |-> <<"L", "P">>]

UpperCase == <<"A", "B", "C", "D", "E", "F", "G", "H", "I", "J", "K", "L", "M",
               "N", "O", "P", "Q", "R", "S", "T", "U", "V", "W", "X", "Y", "Z">>
LowerCase == <<"a", "b", "c", "d", "e", "f", "g", "h", "i", "j", "k", "l", "m",
               "n", "o", "p", "q", "r", "s", "t", "u", "v", "w", "x", "y", "z">>
Digits == <<"0", "1", "2", "3", "4", "5", "6", "7", "8", "9">>

\* strings.ToLower
ToLower(t) ==
    [i \in DOMAIN t |->
        IF \E k \in DOMAIN UpperCase : UpperCase[k] = t[i]
        THEN LowerCase[CHOOSE k \in DOMAIN UpperCase : UpperCase[k] = t[i]]
        ELSE t[i]]

\* strings.Split(t, "|"): the texts between the separators, at least one
RECURSIVE Split(_)
Split(t) ==
    IF \A i \in DOMAIN t : t[i] # "|" THEN <<t>>
    ELSE LET i == CHOOSE j \in DOMAIN t : t[j] = "|" /\ \A k \in 1..(j - 1) : t[k] # "|"
         IN <<SubSeq(t, 1, i - 1)>> \o Split(SubSeq(t, i + 1, Len(t)))

\* the output line the scripts build: the fields joined by "|"
RECURSIVE Join(_)
Join(fields) ==
    IF Len(fields) = 1 THEN fields[1]
    ELSE fields[1] \o <<"|">> \o Join(Tail(fields))

IsDigit(c) == \E k \in DOMAIN Digits : Digits[k] = c
DigitVal(c) == (CHOOSE k \in DOMAIN Digits : Digits[k] = c) - 1
AllDigits(t) == \A i \in DOMAIN t : IsDigit(t[i])

\* the value of a text of decimal digits (0 for the empty text)
RECURSIVE DecVal(_)
DecVal(t) ==
    IF t = <<>> THEN 0
    ELSE DecVal(SubSeq(t, 1, Len(t) - 1)) * 10 + DigitVal(t[Len(t)])

HasSign(t) == t # <<>> /\ t[1] \in {"+", "-"}
Unsigned(t) == IF HasSign(t) THEN Tail(t) ELSE t

\* an Atoi that reads 0 where there is no number
AtoiLenient(t) ==
    IF Unsigned(t) # <<>> /\ AllDigits(Unsigned(t))
    THEN [ok |-> TRUE, val |-> IF t[1] = "-" THEN -DecVal(Unsigned(t)) ELSE DecVal(Unsigned(t))]
    ELSE [ok |-> TRUE, val |-> 0]

\* strconv.Atoi: an optional sign and one or more decimal digits, no more
Atoi(t) ==
    IF Unsigned(t) # <<>> /\ AllDigits(Unsigned(t))
    THEN [ok |-> TRUE, val |-> IF t[1] = "-" THEN -DecVal(Unsigned(t)) ELSE DecVal(Unsigned(t))]
    ELSE [ok |-> FALSE, val |-> 0]

\* strconv.ParseFloat(t, 64) followed by int(): the decimal spelling (sign,
\* digits, at most one point, a digit on one side of it at least) and the
\* value truncated toward zero.  The explored texts hold no exponent, no
\* hexadecimal spelling, no underscore, no infinity and no NaN.
ParseFloat(t) ==
    LET u == Unsigned(t)
        dots == {i \in DOMAIN u : u[i] = "."}
        p == IF dots = {} THEN Len(u) + 1 ELSE CHOOSE i \in dots : \A j \in dots : i <= j
        whole == SubSeq(u, 1, p - 1)
        frac == SubSeq(u, p + 1, Len(u))
    IN IF AllDigits(whole) /\ AllDigits(frac) /\ Len(whole) + Len(frac) > 0
       THEN [ok |-> TRUE, int |-> IF t[1] = "-" THEN -DecVal(whole) ELSE DecVal(whole)]
       ELSE [ok |-> FALSE, int |-> 0]

\* music.NewTrackID
NewTrackID(value) == TrimSpace(value)

\* a result of a decoder or a query: (value, error), the value nil (<<>>) or
\* a pointer to a Player or a Track (<<v>>)
Decoded(v) == [value |-> <<v>>, err |-> NoErr]
\* a failure that hands out the default player next to its error
FailedWithDefault(e) == [value |-> <<NewPlayer>>, err |-> e]
Failed(e) == [value |-> <<>>, err |-> e]
Absent == [value |-> <<>>, err |-> NoErr]

\* a field count check that lets longer lines pass
FieldCountAtLeast(parts, n) == Len(parts) >= n

\* len(parts) != n, negated
FieldCountIs(parts, n) == Len(parts) = n

\* a position test that knows no sentinel
IsMissingPositionNever(text) == FALSE

\* line 371: the texts that stand for "no position"
IsMissingPosition(text) == text = Lit.missing \/ text = <<>>

\* a constructor that checks nothing
NewTrackUnchecked(id, title, artist, album, duration) ==
    [value |-> <<[ID |-> id, Title |-> title, Artist |-> artist, Album |-> album,
                  Duration |-> duration]>>,
     err |-> NoErr]

\* music.NewTrack
NewTrack(id, title, artist, album, duration) ==
    IF id = <<>>
    THEN Failed(NewDomainError("ErrInvalidTrackID", Text("track ID cannot be empty")))
    ELSE IF title = <<>>
    THEN Failed(NewDomainError("ErrInvalidTrack", Text("track title cannot be empty")))
    ELSE IF artist = <<>>
    THEN Failed(NewDomainError("ErrInvalidTrack", Text("track artist cannot be empty")))
    ELSE IF ~(duration >= 0)
    THEN Failed(NewDomainError("ErrInvalidTrack", Text("track duration must be valid")))
    ELSE Decoded([ID |-> id, Title |-> title, Artist |-> artist, Album |-> album,
                  Duration |-> duration])

\* PlayerRepository.parsePlayerState
ParsePlayerState(output) ==
    LET parts == Split(TrimSpace(output))
    IN IF ~FieldCountIs(parts, 6)
       THEN Failed(NewDomainError("ErrOperationFailed", Text("invalid player state format")))
       ELSE
       LET lower == ToLower(parts[1])
           state == IF lower = Lit.stopped THEN "stopped"
                    ELSE IF lower = Lit.playing THEN "playing"
                    ELSE IF lower = Lit.paused THEN "paused"
                    ELSE "stopped"
           volumeLevel == Atoi(parts[2])
           positionSeconds == ParseFloat(parts[3])
           rep == ToLower(parts[5])
           repeat == IF rep = Lit.off THEN "off"
                     ELSE IF rep = Lit.all THEN "all"
                     ELSE IF rep = Lit.one THEN "one"
                     ELSE "off"
       IN IF ~volumeLevel.ok
          THEN Failed(NewDomainError("ErrOperationFailed", Text("invalid volume format")))
          ELSE IF ~IsMissingPosition(parts[3]) /\ ~positionSeconds.ok
          THEN Failed(NewDomainError("ErrOperationFailed", Text("invalid position format")))
          ELSE Decoded([NewPlayer EXCEPT
                    !.State = state,
                    !.Volume = NewVolume(volumeLevel.val),
                    !.Position = IF IsMissingPosition(parts[3]) THEN NewDuration(0)
                                 ELSE NewDuration(positionSeconds.int),
                    !.Shuffle = (ToLower(parts[4]) = Lit.true),
                    !.Repeat = repeat,
                    !.CurrentTrack = IF parts[6] # <<>> THEN <<NewTrackID(parts[6])>>
                                     ELSE <<>>])

\* PlayerRepository.parseTrack
ParseTrack(output) ==
    LET parts == Split(TrimSpace(output))
    IN IF ~FieldCountIs(parts, 5)
       THEN Failed(NewDomainError("ErrOperationFailed", Text("invalid track format")))
       ELSE
       LET durationSeconds == ParseFloat(parts[5])
       IN IF ~durationSeconds.ok
          THEN Failed(NewDomainError("ErrOperationFailed", Text("invalid track duration format")))
          ELSE NewTrack(NewTrackID(parts[1]), parts[2], parts[3], parts[4],
                        NewDuration(durationSeconds.int))

\* The lines explored, as lists of fields.  A player state line has a state,
\* a volume, a position, a shuffle flag, a repeat mode and a track id; a
\* track line an id, a title, an artist, an album and a duration.
PlayerLines ==
    {<<st, level, pos, sh, rp, id>> :
        st \in {Lit.stopped, Lit.playing, Sample.Playing, Sample.PAUSED, Lit.buffering,
                Sample.Buffering, Sample.rewinding},
        level \in {Sample.n50, Sample.n150, Sample.neg5, Sample.f5, Sample.x, <<>>},
        pos \in {Sample.n7, Sample.f12, Sample.neg3, Lit.missing, Sample.x, <<>>},
        sh \in {Lit.true, Sample.TRUE, Sample.false},
        rp \in {Lit.off, Sample.All, Sample.ONE, Sample.x},
        id \in {<<>>, Sample.id}}

\* The texts of a well-formed player state line, each with the value it
\* spells: the names of the PlayerState and RepeatMode enumerations, whole
\* volumes in 0..100, whole positions >= 0 and the two shuffle flags.
StateNames ==
    {[text |-> Lit.stopped, val |-> "stopped"], [text |-> Lit.playing, val |-> "playing"],
     [text |-> Lit.paused, val |-> "paused"], [text |-> Lit.buffering, val |-> "buffering"]}
RepeatNames ==
    {[text |-> Lit.off, val |-> "off"], [text |-> Lit.all, val |-> "all"],
     [text |-> Lit.one, val |-> "one"]}
VolumeTexts ==
    {[text |-> Sample.n0, val |-> 0], [text |-> Sample.n75, val |-> 75],
     [text |-> Sample.n100, val |-> 100]}
PositionTexts ==
    {[text |-> Sample.n0, val |-> 0], [text |-> Sample.n120, val |-> 120]}
ShuffleTexts ==
    {[text |-> Lit.true, val |-> TRUE], [text |-> Sample.false, val |-> FALSE]}
TextsOf(S) == {w.text : w \in S}
ValueOf(S, t) == (CHOOSE w \in S : w.text = t).val

WellFormedLines ==
    {<<st, level, pos, sh, rp, id>> :
        st \in TextsOf(StateNames), level \in TextsOf(VolumeTexts),
        pos \in TextsOf(PositionTexts), sh \in TextsOf(ShuffleTexts),
        rp \in TextsOf(RepeatNames), id \in {<<>>, Sample.id42}}

TrackLines ==
    {<<id, title, artist, album, dur>> :
        id \in {<<>>, Sample.id},
        title \in {<<>>, Sample.title},
        artist \in {<<>>, Sample.artist},
        album \in {<<>>, Sample.album},
        dur \in {Sample.n180, Sample.f200, Sample.neg5, Sample.x, Lit.missing, <<>>}}

\* the sample texts that spell a number, and those that spell an integer
NumberTexts ==
    {Sample.n50, Sample.n150, Sample.neg5, Sample.f5, Sample.n7, Sample.f12,
     Sample.neg3, Sample.n180, Sample.f200, Sample.n0, Sample.n75, Sample.n100,
     Sample.n120}
IntegerTexts ==
    {Sample.n50, Sample.n150, Sample.neg5, Sample.n7, Sample.n180, Sample.n0,
     Sample.n75, Sample.n100, Sample.n120}

\* lines of 1..MaxFields equal fields
CountLines ==
    {[i \in 1..k |-> f] : k \in 1..MaxFields, f \in {<<>>, Sample.n7}}

\* errors a failed Execute returns
ExecErrors ==
    {CancelledError("Canceled"),
     ExhaustedResult(0, NewDomainErrorWithCause("ErrOperationFailed",
            Text("failed to start maestro-exec"), PlainErr("exec"))).Error}

Inputs ==
    {[fields |-> f, pad |-> FALSE, Error |-> NoErr] :
        f \in PlayerLines \cup WellFormedLines \cup TrackLines \cup CountLines}
    \cup {[fields |-> f, pad |-> TRUE, Error |-> NoErr] : f \in CountLines}
    \cup {[fields |-> <<<<>>>>, pad |-> FALSE, Error |-> e] : e \in ExecErrors}

\* the text on the standard output of the script
OutputOf(in) ==
    IF in.Error # NoErr THEN <<>>
    ELSE IF in.pad THEN <<" ">> \o Join(in.fields) \o <<" ", " ">>
    ELSE Join(in.fields)

\* a test for "no current track" that never finds it
NoCurrentTrackNever(output) == FALSE

\* line 335: strings.TrimSpace(result.Output) == ""
NoCurrentTrack(output) == TrimSpace(output) = <<>>

\* parsePlayerState called on an output text
DecodePlayerState ==
    /\ dret.op = "none"
    /\ xresult.Error = NoErr
    /\ LET r == ParsePlayerState(xresult.Output)
       IN dret' = [op |-> "parsePlayerState", decoder |-> "parsePlayerState",
                   value |-> r.value, err |-> r.err]
    /\ UNCHANGED <<din, xresult, notDec>>

\* parseTrack called on an output text
DecodeTrack ==
    /\ dret.op = "none"
    /\ xresult.Error = NoErr
    /\ LET r == ParseTrack(xresult.Output)
       IN dret' = [op |-> "parseTrack", decoder |-> "parseTrack",
                   value |-> r.value, err |-> r.err]
    /\ UNCHANGED <<din, xresult, notDec>>

\* GetCurrentState on the result of its Execute (whose Output is trimmed)
GetCurrentState ==
    /\ dret.op = "none"
    /\ xresult.Output = TrimSpace(xresult.Output)
    /\ IF xresult.Error # NoErr
       THEN dret' = [op |-> "GetCurrentState", decoder |-> "none", value |-> <<>>,
                     err |-> NewDomainErrorWithCause("ErrOperationFailed",
                                Text("failed to get current player state"), xresult.Error)]
       ELSE LET r == ParsePlayerState(xresult.Output)
            IN dret' = [op |-> "GetCurrentState", decoder |-> "parsePlayerState",
                        value |-> r.value, err |-> r.err]
    /\ UNCHANGED <<din, xresult, notDec>>

\* GetCurrentTrack on the result of its Execute (whose Output is trimmed)
GetCurrentTrack ==
    /\ dret.op = "none"
    /\ xresult.Output = TrimSpace(xresult.Output)
    /\ IF xresult.Error # NoErr
       THEN dret' = [op |-> "GetCurrentTrack", decoder |-> "none", value |-> <<>>,
                     err |-> NewDomainErrorWithCause("ErrOperationFailed",
                                Text("failed to get current track"), xresult.Error)]
       ELSE IF NoCurrentTrack(xresult.Output)
       THEN dret' = [op |-> "GetCurrentTrack", decoder |-> "none",
                     value |-> Absent.value, err |-> Absent.err]
       ELSE LET r == ParseTrack(xresult.Output)
            IN dret' = [op |-> "GetCurrentTrack", decoder |-> "parseTrack",
                        value |-> r.value, err |-> r.err]
    /\ UNCHANGED <<din, xresult, notDec>>

InitDec ==
    /\ cfg \in {c \in Configs : c.MaxRetries = 0}
    /\ req = [api |-> "Execute", timeout |-> DefaultTimeoutMs]
    /\ script = <<>>
    /\ CallIdle
    /\ ExtIdle
    /\ ThreadsIdle
    /\ TaxIdle
    /\ din \in Inputs
    /\ xresult = [Output |-> OutputOf(din), Error |-> din.Error]
    /\ dret = NoReturn

NextDec ==
    \/ DecodePlayerState
    \/ DecodeTrack
    \/ GetCurrentState
    \/ GetCurrentTrack

SpecDec == InitDec /\ [][NextDec]_vars

\* ------------------------------------------------------------- the Volume
RECURSIVE Pow2(_)
Pow2(n) == IF n = 0 THEN 1 ELSE 2 * Pow2(n - 1)

\* the range of an int
MinInt == -Pow2(IntBits - 1)
MaxInt == Pow2(IntBits - 1) - 1
Ints == MinInt..MaxInt

\* the result of an int addition or subtraction: two's complement wrap
WrapInt(x) == ((x - MinInt) % Pow2(IntBits)) + MinInt

\* strconv.Itoa and the %d verb: the decimal spelling of an int
RECURSIVE ItoaDigits(_)
ItoaDigits(n) ==
    IF n < 10 THEN <<Digits[n + 1]>>
    ELSE ItoaDigits(n \div 10) \o <<Digits[(n % 10) + 1]>>
Itoa(n) == IF n < 0 THEN <<"-">> \o ItoaDigits(-n) ELSE ItoaDigits(n)

\* Volume.Increase
Increase(v, amount) == [level |-> NewVolume(WrapInt(v.level + amount))]
\* Volume.Decrease
Decrease(v, amount) == [level |-> NewVolume(WrapInt(v.level - amount))]
\* Volume.IsValid
VolumeIsValid(v) == v.level >= 0 /\ v.level <= 100

\* NewVolume(x) for any int x
VolNew ==
    /\ vop.op = "none"
    /\ \E x \in Ints :
         /\ vol' = [level |-> NewVolume(x)]
         /\ vop' = [op |-> "NewVolume", arg |-> x, before |-> vol.level, text |-> <<>>]
    /\ UNCHANGED notVol

\* v.Increase(amount) for any int amount
VolIncrease ==
    /\ vop.op = "NewVolume"
    /\ \E amount \in Ints :
         /\ vol' = Increase(vol, amount)
         /\ vop' = [op |-> "Increase", arg |-> amount, before |-> vol.level, text |-> <<>>]
    /\ UNCHANGED notVol

\* v.Decrease(amount) for any int amount
VolDecrease ==
    /\ vop.op = "NewVolume"
    /\ \E amount \in Ints :
         /\ vol' = Decrease(vol, amount)
         /\ vop' = [op |-> "Decrease", arg |-> amount, before |-> vol.level, text |-> <<>>]
    /\ UNCHANGED notVol

\* The level written into the script of SetVolume by %d, and the same text
\* read back as the volume field of a player state line (Atoi, NewVolume).
VolRoundTrip ==
    /\ vop.op = "NewVolume"
    /\ VolumeIsValid(vol)
    /\ LET text == Itoa(vol.level)
           volumeLevel == Atoi(text)
       IN /\ vol' = IF volumeLevel.ok THEN [level |-> NewVolume(volumeLevel.val)] ELSE vol
          /\ vop' = [op |-> IF volumeLevel.ok THEN "RoundTrip" ELSE "RoundTripFailed",
                     arg |-> 0, before |-> vol.level, text |-> text]
    /\ UNCHANGED notVol

InitVol ==
    /\ CoreIdle
    /\ VolIdle
    /\ EntIdle
    /\ TrkIdle
    /\ TplIdle
    /\ MainIdle
    /\ CtxIdle

NextVol ==
    \/ VolNew
    \/ VolIncrease
    \/ VolDecrease
    \/ VolRoundTrip

SpecVol == InitVol /\ [][NextVol]_vars

\* -------------------------------------------------------------- the Track
\* The arguments explored: a TrackID value, a title, an artist and an album
\* that are empty, blank or a text, and the seconds of a Duration, which a
\* literal of the package can make negative (Duration{seconds: -1}).
TrackArgs ==
    {[id |-> id, title |-> title, artist |-> artist, album |-> album, seconds |-> sec] :
        id \in {<<>>, Sample.id},
        title \in {<<>>, <<" ">>, Sample.title},
        artist \in {<<>>, <<" ">>, Sample.artist},
        album \in {<<>>, Sample.album},
        sec \in {-1, 0, 180}}

\* NewTrack called with the arguments as they are
TrackNew ==
    /\ trkRet.op = "none"
    /\ LET r == NewTrack(trkIn.id, trkIn.title, trkIn.artist, trkIn.album, trkIn.seconds)
       IN trkRet' = [op |-> "NewTrack", value |-> r.value, err |-> r.err]
    /\ UNCHANGED <<trkIn, notTrk>>

\* parseTrack called on the track line that spells the arguments
TrackDecode ==
    /\ trkRet.op = "none"
    /\ LET r == ParseTrack(Join(<<trkIn.id, trkIn.title, trkIn.artist, trkIn.album,
                                  Itoa(trkIn.seconds)>>))
       IN trkRet' = [op |-> "parseTrack", value |-> r.value, err |-> r.err]
    /\ UNCHANGED <<trkIn, notTrk>>

InitTrk ==
    /\ CoreIdle
    /\ VolIdle
    /\ EntIdle
    /\ TplIdle
    /\ MainIdle
    /\ CtxIdle
    /\ trkIn \in TrackArgs
    /\ trkRet = NoTrackReturn

NextTrk ==
    \/ TrackNew
    \/ TrackDecode

SpecTrk == InitTrk /\ [][NextTrk]_vars

\* ------------------------------------------------------- script templates
\* A stored template is written as a list of pieces, each a literal text or
\* a placeholder of a key; the file holds the pieces spelled out one after
\* the other.
Piece(ph, text) == [ph |-> ph, text |-> text]

\* fmt.Sprintf("{{%s}}", key)
Placeholder(key) == <<"{", "{">> \o key \o <<"}", "}">>

RECURSIVE TemplateText(_)
TemplateText(pieces) ==
    IF pieces = <<>> THEN <<>>
    ELSE (IF Head(pieces).ph THEN Placeholder(Head(pieces).text) ELSE Head(pieces).text)
         \o TemplateText(Tail(pieces))

KeyA == <<"a">>
KeyB == <<"b">>
KeyC == <<"c">>

\* the files of the scripts directory, by template name
Stored ==
    [plain |-> <<Piece(FALSE, <<"x">>)>>,
     one |-> <<Piece(TRUE, KeyA)>>,
     twice |-> <<Piece(TRUE, KeyA), Piece(FALSE, <<"x">>), Piece(TRUE, KeyA)>>,
     both |-> <<Piece(TRUE, KeyB), Piece(FALSE, <<" ">>), Piece(TRUE, KeyA)>>,
     other |-> <<Piece(TRUE, KeyC), Piece(FALSE, <<"x">>), Piece(TRUE, KeyA)>>,
     braces |-> <<Piece(FALSE, <<"{">>), Piece(TRUE, KeyA), Piece(FALSE, <<"}">>)>>,
     empty |-> <<>>]

\* parameter values: a string or an int
StringValue(t) == [kind |-> "string", text |-> t, num |-> 0]
IntValue(n) == [kind |-> "int", text |-> <<>>, num |-> n]

\* fmt.Sprintf("%v", value)
Replacement(value) == IF value.kind = "int" THEN Itoa(value.num) ELSE value.text

\* the parameter maps explored: any subset of the keys a and b, the value of
\* a a text, a text that spells the placeholder of b, or an int
ValuesOf(key) ==
    IF key = KeyA
    THEN {StringValue(<<"v">>), StringValue(Placeholder(KeyB)), IntValue(7)}
    ELSE {StringValue(<<"w">>)}
ParamMaps ==
    UNION {{m \in [K -> ValuesOf(KeyA) \cup ValuesOf(KeyB)] :
                \A k \in K : m[k] \in ValuesOf(k)} : K \in SUBSET {KeyA, KeyB}}

\* The text a template stands for under a parameter map: every placeholder
\* of a supplied key spelled as the value of that key, every other piece as
\* it is in the file.
RECURSIVE Resolved(_, _)
Resolved(pieces, params) ==
    IF pieces = <<>> THEN <<>>
    ELSE (IF Head(pieces).ph /\ Head(pieces).text \in DOMAIN params
          THEN Replacement(params[Head(pieces).text])
          ELSE IF Head(pieces).ph THEN Placeholder(Head(pieces).text)
          ELSE Head(pieces).text)
         \o Resolved(Tail(pieces), params)

TemplateInputs ==
    {[name |-> n, params |-> m, callerOk |-> TRUE] :
        n \in (DOMAIN Stored) \cup {"nosuch"}, m \in ParamMaps}
    \cup {[name |-> "one", params |-> m, callerOk |-> FALSE] : m \in {[k \in {} |-> 0]}}

\* strings.ReplaceAll(t, old, new) for a non-empty old: the occurrences of
\* old found from left to right, without overlap, each replaced by new
RECURSIVE ReplaceAll(_, _, _)
ReplaceAll(t, old, new) ==
    IF Len(t) < Len(old) THEN t
    ELSE IF SubSeq(t, 1, Len(old)) = old
    THEN new \o ReplaceAll(SubSeq(t, Len(old) + 1, Len(t)), old, new)
    ELSE <<Head(t)>> \o ReplaceAll(Tail(t), old, new)

\* the orders in which a range over the map can visit its keys
Orders(K) ==
    {o \in [1..Cardinality(K) -> K] : \A i, j \in DOMAIN o : o[i] = o[j] => i = j}

\* lines 263-267: the loop over the parameters, in one order
RECURSIVE Substitute(_, _, _)
Substitute(text, params, order) ==
    IF order = <<>> THEN text
    ELSE Substitute(ReplaceAll(text, Placeholder(Head(order)),
                               Replacement(params[Head(order)])),
                    params, Tail(order))

\* a load that takes a missing file for an empty one
LoadScriptLenient(scriptName, callerOk) ==
    [text |-> IF scriptName \in DOMAIN Stored THEN TemplateText(Stored[scriptName]) ELSE <<>>,
     err |-> NoErr]

\* Executor.LoadScript
LoadScript(scriptName, callerOk) ==
    IF ~callerOk
    THEN [text |-> <<>>,
          err |-> NewDomainError("ErrOperationFailed",
                     Text("unable to determine current file location"))]
    ELSE IF scriptName \notin DOMAIN Stored
    THEN [text |-> <<>>,
          err |-> NewDomainErrorWithCause("ErrOperationFailed",
                     Msg("failed to read script file %s", scriptName, <<>>, 0),
                     PlainErr("open"))]
    ELSE [text |-> TemplateText(Stored[scriptName]), err |-> NoErr]

\* Executor.ExecuteTemplate up to its call of Execute: load, substitute in
\* the order the map range takes, and either return the load error or call
\* Execute with the resolved text
ExecuteTemplate ==
    /\ tpl.pc = "call"
    /\ pc = "caller"
    /\ LET loaded == LoadScript(tplIn.name, tplIn.callerOk)
       IN IF loaded.err # NoErr
          THEN /\ tpl' = [tpl EXCEPT
                            !.pc = "done",
                            !.ret = [NoResult EXCEPT !.Error =
                                       NewDomainErrorWithCause("ErrOperationFailed",
                                           Text("failed to load script template"),
                                           loaded.err)]]
               /\ UNCHANGED <<script, pc>>
          ELSE \E order \in Orders(DOMAIN tplIn.params) :
                 LET resolved == Substitute(loaded.text, tplIn.params, order)
                 IN /\ tpl' = [tpl EXCEPT !.pc = "execute", !.order = order,
                                          !.passed = <<resolved>>]
                    /\ script' = resolved
                    /\ pc' = "call"
    /\ UNCHANGED <<tplIn, cfg, req, ctxErr, obs, attempt, lastErr, sel, timerReady, result,
                   ret, waits, onceVars, concVars, taxVars, decVars, notTpl>>

\* line 269: ExecuteTemplate returns what Execute returned
TemplateReturn ==
    /\ tpl.pc = "execute"
    /\ pc = "done"
    /\ tpl' = [tpl EXCEPT !.pc = "done", !.ret = result]
    /\ UNCHANGED <<tplIn, coreVars, notTpl>>

InitTpl ==
    /\ cfg \in {c \in Configs : c.MaxRetries = 1}
    /\ req = [api |-> "Execute", timeout |-> DefaultTimeoutMs]
    /\ script = <<>>
    /\ pc = "caller"
    /\ attempt = 0
    /\ lastErr = NoErr
    /\ ctxErr = "none"
    /\ sel = "poll"
    /\ timerReady = FALSE
    /\ opc = "idle"
    /\ execCtxErr = "none"
    /\ proc = "none"
    /\ pdata = NoData
    /\ onceResult = NoResult
    /\ result = NoResult
    /\ ret = "none"
    /\ calls = 0
    /\ spawns = 0
    /\ waits = 0
    /\ hist = <<>>
    /\ obs = NoObs
    /\ ThreadsIdle
    /\ TaxIdle
    /\ DecIdle
    /\ VolIdle
    /\ EntIdle
    /\ TrkIdle
    /\ MainIdle
    /\ CtxIdle
    /\ tplIn \in TemplateInputs
    /\ tpl = [NoTemplateCall EXCEPT !.pc = "call"]

NextTpl ==
    \/ ExecuteTemplate
    \/ TemplateReturn
    \/ Next

SpecTpl == InitTpl /\ [][NextTpl]_vars

\* ------------------------------------------------------ the script runner
exitSuccess == 0
exitError == 1
exitTimeout == 2

\* the texts on standard input: blanks, a letter and line ends
StdinTexts == SeqsUpTo({" ", "a", "\n"}, MaxScriptLen)

\* bufio.Scanner with ScanLines: the lines of the text, without their line
\* ends; a text that ends in a line end has no empty last line
RECURSIVE ScanLines(_)
ScanLines(t) ==
    IF t = <<>> THEN <<>>
    ELSE IF \A i \in DOMAIN t : t[i] # "\n" THEN <<t>>
    ELSE LET i == CHOOSE j \in DOMAIN t : t[j] = "\n" /\ \A k \in 1..(j - 1) : t[k] # "\n"
         IN <<SubSeq(t, 1, i - 1)>> \o ScanLines(SubSeq(t, i + 1, Len(t)))

\* lines 25-27: every line written to the builder with a line end
RECURSIVE WriteLines(_)
WriteLines(lines) ==
    IF lines = <<>> THEN <<>>
    ELSE Head(lines) \o <<"\n">> \o WriteLines(Tail(lines))

\* what osascript can end with: success with or without output, or a failure
MainOutcomes ==
    {[code |-> 0, stdout |-> <<"a">>], [code |-> 0, stdout |-> <<>>],
     [code |-> 1, stdout |-> <<>>]}

MainInputs ==
    {[stdin |-> t, readErr |-> r, found |-> f] :
        t \in StdinTexts, r \in BOOLEAN, f \in BOOLEAN}

MainExit(run, code, message) ==
    [run EXCEPT !.pc = "exited", !.exit = code, !.stderr = message]

\* lines 21-45: read standard input, reject a read error and an empty
\* script, set the deadline and start osascript (cmd.Output)
MainRead ==
    /\ mainRun.pc = "start"
    /\ LET scriptContent == TrimSpace(WriteLines(ScanLines(mainIn.stdin)))
       IN IF mainIn.readErr
          THEN mainRun' = MainExit(mainRun, exitError, Text("Error reading stdin: %v"))
          ELSE IF scriptContent = <<>>
          THEN mainRun' = MainExit(mainRun, exitError, Text("Error: empty AppleScript input"))
          ELSE IF ~mainIn.found
          THEN mainRun' = [mainRun EXCEPT !.pc = "check", !.script = scriptContent,
                                          !.err = "start"]
          ELSE mainRun' = [mainRun EXCEPT !.pc = "output", !.script = scriptContent,
                                          !.proc = "running"]
    /\ UNCHANGED <<mainIn, notMain>>

\* osascript ends by itself
MainProcExit ==
    /\ mainRun.proc = "running"
    /\ \E o \in MainOutcomes :
         mainRun' = [mainRun EXCEPT !.proc = "exited", !.pout = o]
    /\ UNCHANGED <<mainIn, notMain>>

\* The deadline of the context passes, at any moment from the start of
\* osascript to the exit of main; a running osascript is killed.
MainDeadline ==
    /\ mainRun.pc \in {"output", "check"}
    /\ mainRun.proc # "none"
    /\ mainRun.ctxErr = "none"
    /\ mainRun' = [mainRun EXCEPT
                     !.ctxErr = "DeadlineExceeded",
                     !.proc = IF mainRun.proc = "running" THEN "killed" ELSE mainRun.proc,
                     !.timedOut = (mainRun.proc = "running")]
    /\ UNCHANGED <<mainIn, notMain>>

\* line 45: cmd.Output returns once osascript is gone
MainOutput ==
    /\ mainRun.pc = "output"
    /\ mainRun.proc \in {"exited", "killed"}
    /\ mainRun' = [mainRun EXCEPT
                     !.pc = "check",
                     !.err = IF mainRun.proc = "killed" THEN "killed"
                             ELSE IF mainRun.pout.code # 0 THEN "exit" ELSE "none",
                     !.output = IF mainRun.proc = "killed" THEN <<>> ELSE mainRun.pout.stdout]
    /\ UNCHANGED <<mainIn, notMain>>

\* lines 47-59: the exit code is chosen
MainCheck ==
    /\ mainRun.pc = "check"
    /\ IF mainRun.ctxErr = "DeadlineExceeded"
       THEN mainRun' = MainExit(mainRun, exitTimeout,
                                Text("Error: script execution timed out after %v"))
       ELSE IF mainRun.err # "none"
       THEN mainRun' = MainExit(mainRun, exitError, Text("Error executing AppleScript: %v"))
       ELSE mainRun' = [MainExit(mainRun, exitSuccess, Text("")) EXCEPT
                            !.stdout = mainRun.output]
    /\ UNCHANGED <<mainIn, notMain>>

InitMain ==
    /\ CoreIdle
    /\ VolIdle
    /\ EntIdle
    /\ TrkIdle
    /\ TplIdle
    /\ CtxIdle
    /\ mainIn \in MainInputs
    /\ mainRun = [NoMainRun EXCEPT !.pc = "start"]

NextMain ==
    \/ MainRead
    \/ MainProcExit
    \/ MainDeadline
    \/ MainOutput
    \/ MainCheck

SpecMain == InitMain /\ [][NextMain]_vars

\* ----------------------------------------------- the context of an error
\* keys and values of the calls; "never_set" is a key no call uses
ContextKeys == {"track_id", "user_id"}
ContextValues == {"track-123", "user-456"}
QueryKeys == ContextKeys \cup {"never_set"}

\* the errors the calls are made on
ContextErrors ==
    {NewDomainError("ErrTrackNotFound", Text("track not found")),
     NewDomainErrorWithCause("ErrOperationFailed", Text("failed to start maestro-exec"),
                             PlainErr("exec")),
     NewDomainErrorWithCause("ErrTimeout", Text("AppleScript execution timed out"),
                             Sentinel("ErrTimeout"))}

\* a WithContext that works on a copy: a new object with the entry added
WithContextOnCopy(heap, ptr, key, value) ==
    [heap |-> Append(heap, WithContext(heap[ptr], key, value)), ret |-> Len(heap) + 1]

\* (*DomainError).WithContext on the object behind ptr: the entry is stored
\* in the object's own map and the receiver is returned
WithContextAt(heap, ptr, key, value) ==
    [heap |-> [heap EXCEPT ![ptr] = WithContext(heap[ptr], key, value)], ret |-> ptr]

\* (*DomainError).GetContext
GetContext(e, key) ==
    IF key \in DOMAIN e.Context
    THEN [value |-> e.Context[key], exists |-> TRUE]
    ELSE [value |-> "", exists |-> FALSE]

\* err.WithContext(key, value) on the first object
ContextWith ==
    /\ Len(clog) < MaxContextCalls
    /\ \E key \in ContextKeys, value \in ContextValues :
         LET r == WithContextAt(objs, 1, key, value)
         IN /\ objs' = r.heap
            /\ clog' = Append(clog, [key |-> key, value |-> value, before |-> objs[1]])
            /\ cret' = [op |-> "WithContext", key |-> key, ptr |-> r.ret,
                        value |-> value, exists |-> TRUE]
    /\ UNCHANGED notCtx

\* err.GetContext(key) on the first object
ContextGet ==
    /\ \E key \in QueryKeys :
         LET r == GetContext(objs[1], key)
         IN cret' = [op |-> "GetContext", key |-> key, ptr |-> 1,
                     value |-> r.value, exists |-> r.exists]
    /\ UNCHANGED <<objs, clog, notCtx>>

InitCtx ==
    /\ CoreIdle
    /\ VolIdle
    /\ EntIdle
    /\ TrkIdle
    /\ TplIdle
    /\ MainIdle
    /\ objs \in {<<e>> : e \in ContextErrors}
    /\ clog = <<>>
    /\ cret = NoContextCall

NextCtx ==
    \/ ContextWith
    \/ ContextGet

SpecCtx == InitCtx /\ [][NextCtx]_vars

\* ------------------------------------------------------------- the Player
\* The arguments explored. A Volume and a Duration are made by a literal of
\* the package as well as by their constructors, so a level outside 0..100
\* and negative seconds are passed too; a *TrackID is nil, points to the empty
\* TrackID or to a TrackID.
PlayerVolumes == {-1, 0, 75, 150}
PlayerPositions == {-1, 30}
PlayerTracks == {<<>>, <<NewTrackID(<<>>)>>, <<NewTrackID(Sample.id)>>}
PlayerRepeats == {"off", "all", "one"}

\* Duration.IsValid
DurationIsValid(d) == d >= 0

\* a SetVolume that stores whatever it is given
SetVolumeUnchecked(p, volume, now) ==
    [player |-> [p EXCEPT !.Volume = volume, !.LastUpdated = now], err |-> NoErr]

\* Player.SetVolume: the Player after the call and the error returned
SetVolume(p, volume, now) ==
    IF ~VolumeIsValid([level |-> volume])
    THEN [player |-> p,
          err |-> NewDomainError("ErrInvalidVolume", Text("volume must be between 0 and 100"))]
    ELSE [player |-> [p EXCEPT !.Volume = volume, !.LastUpdated = now], err |-> NoErr]

\* Player.SetPosition
SetPosition(p, position, now) ==
    IF ~DurationIsValid(position)
    THEN [player |-> p,
          err |-> NewDomainError("ErrInvalidPosition", Text("position must be valid"))]
    ELSE [player |-> [p EXCEPT !.Position = position, !.LastUpdated = now], err |-> NoErr]

\* Player.Play
Play(p, trackID, now) ==
    [p EXCEPT !.State = "playing", !.CurrentTrack = trackID, !.LastUpdated = now]

\* a Pause that does not look at the state
PauseUnguarded(p, now) == [p EXCEPT !.State = "paused", !.LastUpdated = now]

\* Player.Pause
Pause(p, now) ==
    IF p.State = "playing" THEN [p EXCEPT !.State = "paused", !.LastUpdated = now] ELSE p

\* Player.Stop
Stop(p, now) ==
    [p EXCEPT !.State = "stopped", !.CurrentTrack = <<>>, !.Position = NewDuration(0),
              !.LastUpdated = now]

\* Player.Resume
Resume(p, now) ==
    IF p.State = "paused" THEN [p EXCEPT !.State = "playing", !.LastUpdated = now] ELSE p

\* Player.SetShuffle
SetShuffle(p, enabled, now) == [p EXCEPT !.Shuffle = enabled, !.LastUpdated = now]

\* Player.SetRepeat
SetRepeat(p, mode, now) == [p EXCEPT !.Repeat = mode, !.LastUpdated = now]

\* time.Now() at a call: later than the time of every earlier call
PlayerNow == pop.n + 1

\* a call returned: its arguments, the Player it left, its error, the Player
\* it found, and whether the Player was playing at some time before the call
\* returned
PlayerCalled(name, args, after, err) ==
    /\ pop.n < MaxPlayerOps
    /\ plr' = after
    /\ pop' = [op |-> name, arg |-> args, n |-> pop.n + 1, err |-> err, before |-> <<plr>>,
               played |-> pop.played \/ plr.State = "playing"]
    /\ UNCHANGED notPlr

PlayerSetVolume ==
    \E volume \in PlayerVolumes :
        LET r == SetVolume(plr, volume, PlayerNow)
        IN PlayerCalled("SetVolume", <<volume>>, r.player, r.err)

PlayerSetPosition ==
    \E position \in PlayerPositions :
        LET r == SetPosition(plr, position, PlayerNow)
        IN PlayerCalled("SetPosition", <<position>>, r.player, r.err)

PlayerPlay ==
    \E trackID \in PlayerTracks : PlayerCalled("Play", <<trackID>>, Play(plr, trackID, PlayerNow), NoErr)

PlayerPause == PlayerCalled("Pause", <<>>, Pause(plr, PlayerNow), NoErr)

PlayerStop == PlayerCalled("Stop", <<>>, Stop(plr, PlayerNow), NoErr)

PlayerResume == PlayerCalled("Resume", <<>>, Resume(plr, PlayerNow), NoErr)

PlayerSetShuffle ==
    \E enabled \in BOOLEAN :
        PlayerCalled("SetShuffle", <<enabled>>, SetShuffle(plr, enabled, PlayerNow), NoErr)

PlayerSetRepeat ==
    \E mode \in PlayerRepeats :
        PlayerCalled("SetRepeat", <<mode>>, SetRepeat(plr, mode, PlayerNow), NoErr)

InitPlr ==
    /\ CoreIdle
    /\ VolIdle /\ TrkIdle /\ TplIdle /\ MainIdle /\ CtxIdle
    /\ PlsIdle
    /\ plr = PlayerAt(NewPlayer, 0)
    /\ pop = NoPlayerOp

NextPlr ==
    \/ PlayerSetVolume
    \/ PlayerSetPosition
    \/ PlayerPlay
    \/ PlayerPause
    \/ PlayerStop
    \/ PlayerResume
    \/ PlayerSetShuffle
    \/ PlayerSetRepeat

SpecPlr == InitPlr /\ [][NextPlr]_vars

\* ----------------------------------------------------------- the Playlist
\* The arguments explored: the texts NewTrackID and NewPlaylistID are called
\* with (empty, blank, three identifiers, one of them also with a trailing
\* blank), and the names.
TrackIDTexts == {<<>>, <<" ">>, <<"a">>, <<"a", " ">>, <<"b">>, <<"c">>}
PlaylistIDTexts == {<<>>, <<" ">>, <<"p">>}
PlaylistNames == {<<>>, <<"n">>}

\* music.NewPlaylistID
NewPlaylistID(value) == TrimSpace(value)

\* NewPlaylist: (*Playlist, error), the pointer nil (<<>>) on an error
NewPlaylist(id, name, playlistType, readOnly, now) ==
    IF id = <<>>
    THEN Failed(NewDomainError("ErrInvalidPlaylistID", Text("playlist ID cannot be empty")))
    ELSE IF name = <<>>
    THEN Failed(NewDomainError("ErrInvalidPlaylist", Text("playlist name cannot be empty")))
    ELSE Decoded([ID |-> id, Name |-> name, Type |-> playlistType, ReadOnly |-> readOnly,
                  Tracks |-> <<>>, CreatedAt |-> now, ModifiedAt |-> now])

\* the index of the first element of a slice that Equals the TrackID, 0 if none
IndexOfTrack(tracks, trackID) ==
    IF \E i \in 1..Len(tracks) : tracks[i] = trackID
    THEN CHOOSE i \in 1..Len(tracks) :
            /\ tracks[i] = trackID
            /\ \A j \in 1..(i - 1) : tracks[j] # trackID
    ELSE 0

\* an AddTrack without the loop over the tracks present
AddTrackAgain(p, trackID, now) ==
    IF p.ReadOnly
    THEN [playlist |-> p,
          err |-> NewDomainError("ErrPlaylistReadOnly", Text("cannot modify read-only playlist"))]
    ELSE IF trackID = <<>>
    THEN [playlist |-> p,
          err |-> NewDomainError("ErrInvalidTrackID", Text("cannot add empty track ID to playlist"))]
    ELSE [playlist |-> [p EXCEPT !.Tracks = Append(@, trackID), !.ModifiedAt = now],
          err |-> NoErr]

\* an AddTrack that looks at the TrackID before it looks at ReadOnly
AddTrackValidatesFirst(p, trackID, now) ==
    IF trackID = <<>>
    THEN [playlist |-> p,
          err |-> NewDomainError("ErrInvalidTrackID", Text("cannot add empty track ID to playlist"))]
    ELSE IF p.ReadOnly
    THEN [playlist |-> p,
          err |-> NewDomainError("ErrPlaylistReadOnly", Text("cannot modify read-only playlist"))]
    ELSE IF IndexOfTrack(p.Tracks, trackID) # 0
    THEN [playlist |-> p,
          err |-> NewDomainError("ErrTrackAlreadyInPlaylist", Text("track is already in playlist"))]
    ELSE [playlist |-> [p EXCEPT !.Tracks = Append(@, trackID), !.ModifiedAt = now],
          err |-> NoErr]

\* Playlist.AddTrack: the Playlist after the call and the error returned
AddTrack(p, trackID, now) ==
    IF p.ReadOnly
    THEN [playlist |-> p,
          err |-> NewDomainError("ErrPlaylistReadOnly", Text("cannot modify read-only playlist"))]
    ELSE IF trackID = <<>>
    THEN [playlist |-> p,
          err |-> NewDomainError("ErrInvalidTrackID", Text("cannot add empty track ID to playlist"))]
    ELSE IF IndexOfTrack(p.Tracks, trackID) # 0
    THEN [playlist |-> p,
          err |-> NewDomainError("ErrTrackAlreadyInPlaylist", Text("track is already in playlist"))]
    ELSE [playlist |-> [p EXCEPT !.Tracks = Append(@, trackID), !.ModifiedAt = now],
          err |-> NoErr]

\* Playlist.RemoveTrack: append(p.Tracks[:i], p.Tracks[i+1:]...) at the first
\* index whose TrackID Equals the argument
RemoveTrack(p, trackID, now) ==
    IF p.ReadOnly
    THEN [playlist |-> p,
          err |-> NewDomainError("ErrPlaylistReadOnly", Text("cannot modify read-only playlist"))]
    ELSE LET i == IndexOfTrack(p.Tracks, trackID)
         IN IF i # 0
            THEN [playlist |-> [p EXCEPT !.Tracks = SubSeq(@, 1, i - 1) \o SubSeq(@, i + 1, Len(@)),
                                         !.ModifiedAt = now],
                  err |-> NoErr]
            ELSE [playlist |-> p,
                  err |-> NewDomainError("ErrTrackNotFound", Text("track not found in playlist"))]

\* time.Now() at a call: later than the time of every earlier call
PlaylistNow == lop.n + 1

\* a call on the Playlist returned: its argument, the Playlist it left, its
\* error, the Playlist it found, and the calls that returned nil so far
PlaylistCalled(name, trackID, r) ==
    /\ pls # <<>>
    /\ lop.n <= MaxPlaylistOps
    /\ pls' = <<r.playlist>>
    /\ lop' = [op |-> name, arg |-> trackID, n |-> lop.n + 1, err |-> r.err, before |-> pls,
               done |-> IF r.err = NoErr
                        THEN Append(lop.done, [op |-> name, id |-> trackID])
                        ELSE lop.done]
    /\ UNCHANGED notPls

PlaylistNew ==
    /\ lop.op = "none"
    /\ \E id \in PlaylistIDTexts, name \in PlaylistNames, readOnly \in BOOLEAN :
          LET r == NewPlaylist(NewPlaylistID(id), name, "user", readOnly, PlaylistNow)
          IN /\ pls' = r.value
             /\ lop' = [lop EXCEPT !.op = "NewPlaylist", !.arg = NewPlaylistID(id),
                                    !.n = 1, !.err = r.err]
    /\ UNCHANGED notPls

PlaylistAddTrack ==
    \E t \in TrackIDTexts :
        PlaylistCalled("AddTrack", NewTrackID(t), AddTrack(pls[1], NewTrackID(t), PlaylistNow))

PlaylistRemoveTrack ==
    \E t \in TrackIDTexts :
        PlaylistCalled("RemoveTrack", NewTrackID(t),
                       RemoveTrack(pls[1], NewTrackID(t), PlaylistNow))

InitPls ==
    /\ CoreIdle
    /\ VolIdle /\ TrkIdle /\ TplIdle /\ MainIdle /\ CtxIdle
    /\ PlrIdle
    /\ pls = <<>>
    /\ lop = NoPlaylistOp

NextPls ==
    \/ PlaylistNew
    \/ PlaylistAddTrack
    \/ PlaylistRemoveTrack

SpecPls == InitPls /\ [][NextPls]_vars

\* PlayerRepository.Play, lines 75-81: the error returned for a failed execution
PlayFailed(trackID, cause) ==
    NewDomainErrorWithCause("ErrOperationFailed",
        Msg("failed to play track %s", "", trackID, 0), cause)

\* ------------------------------------------------------------- properties

\* C1 (as stated): when attempts 1..n-1 failed with a retryable error, attempt
\* n succeeded and the context never fired, the call returns without error
\* and with an attempt count (RetryCount) of n, after exactly n executions.
C1_AttemptCountIsN ==
    LET n == Len(hist)
    IN (/\ pc = "done" /\ n >= 1 /\ hist[n] = "ok"
        /\ \A i \in 1..(n - 1) : hist[i] = "retryable"
        /\ ~CtxDone(ctxErr))
       => /\ result.Error = NoErr
          /\ result.RetryCount = n
          /\ calls = n

\* C1 (amended): when attempts 1..n-1 failed with a retryable error, attempt n
\* succeeded and the context never fired, then n <= MaxRetries+1, exactly n
\* executions of executeOnce have begun (at most n subprocesses), nothing but
\* the return follows the successful attempt, and the call returns without
\* error with RetryCount = n-1, the zero-based index of the successful attempt.
C1_SuccessAfterRetries ==
    LET n == Len(hist)
    IN (/\ n >= 1 /\ hist[n] = "ok"
        /\ \A i \in 1..(n - 1) : hist[i] = "retryable"
        /\ ~CtxDone(ctxErr))
       => /\ n <= cfg.MaxRetries + 1
          /\ calls = n
          /\ spawns <= n
          /\ pc \in {"check", "done"}
          /\ pc = "done" =>
                /\ ret = "success"
                /\ result.Error = NoErr
                /\ result.RetryCount = n - 1
                /\ result.Output = onceResult.Output

\* C1 witness: a call that succeeded at its third attempt, every attempt
\* having started a subprocess, the context never fired.
C1_Witness ==
    /\ pc = "done" /\ ret = "success" /\ ~CtxDone(ctxErr)
    /\ hist = <<"retryable", "retryable", "ok">>
    /\ calls = 3 /\ spawns = 3
    /\ result.RetryCount = 2

C3_ExhaustionAfterAllAttempts ==
    cfg.MaxRetries >= 0 =>
        /\ calls <= cfg.MaxRetries + 1
        /\ (/\ pc = "done" /\ ret # "rejected" /\ ~CtxDone(ctxErr)
            /\ \A i \in DOMAIN hist : hist[i] = "retryable")
           => /\ ret = "exhausted"
              /\ calls = cfg.MaxRetries + 1
              /\ Len(hist) = cfg.MaxRetries + 1
              /\ result.Error.kind = "domain"
              /\ result.Error.Code = "ErrOperationFailed"
              /\ result.Error.Cause = onceResult.Error
              /\ result.Error.Cause # NoErr
              /\ result.Error.Message.number = cfg.MaxRetries + 1

\* C3 witness: MaxRetries = 3 and four failed attempts.
C3_Witness ==
    /\ pc = "done" /\ ret = "exhausted" /\ ~CtxDone(ctxErr)
    /\ cfg.MaxRetries = 3 /\ calls = 4
    /\ hist = <<"retryable", "retryable", "retryable", "retryable">>

\* C4: when the context fires during the inter-attempt wait, no subprocess is
\* started from then on, and the call returns a timeout error whose cause is
\* the context's error.
C4_CancelDuringWait ==
    /\ [](obs.firedInWait /\ pc = "done"
            => /\ ret \in {"cancelledWait", "cancelledAttempt"}
               /\ result.Error.kind = "domain"
               /\ result.Error.Code = "ErrTimeout"
               /\ result.Error.Cause = PlainErr(ctxErr))
    /\ [][obs.firedInWait => spawns' = spawns]_vars

\* C4 witness: the context fired while the select was parked in the wait
\* before the second attempt, and the call returned from the select.
C4_Witness ==
    /\ pc = "done" /\ obs.firedInWait /\ ret = "cancelledWait"
    /\ calls = 1 /\ spawns = 1 /\ waits = 1

\* C5: when the context has fired by the time an attempt ends in a failure
\* that is not permanent, nothing but the return follows, and the call
\* returns a timeout error whose cause is the context's error, whatever the
\* number of attempts left.
C5_CancelDuringAttempt ==
    LET n == Len(hist)
    IN (n >= 1 /\ hist[n] \notin {"ok", "permanent"} /\ CtxDone(obs.ctxAtReturn))
       => /\ pc \in {"check", "done"}
          /\ calls = n
          /\ pc = "done" =>
                /\ ret = "cancelledAttempt"
                /\ result.Error.kind = "domain"
                /\ result.Error.Code = "ErrTimeout"
                /\ result.Error.Cause = PlainErr(ctxErr)
                /\ result.Error.Message = Text("context cancelled")

\* C5 witness: the context fired during the last permitted attempt of a call
\* configured with retries.
C5_Witness ==
    /\ pc = "done" /\ ret = "cancelledAttempt" /\ CtxDone(obs.ctxAtReturn)
    /\ cfg.MaxRetries >= 1 /\ attempt = cfg.MaxRetries
    /\ calls = cfg.MaxRetries + 1

\* C6 (as stated): once the context has fired no execution of executeOnce
\* begins: the executions begun are those begun when it fired.
C6_NoAttemptAfterFire ==
    CtxDone(ctxErr) => calls = obs.firedAtCalls

\* C6 (amended): once the context has fired no subprocess is started; at most
\* one further execution of executeOnce begins (the first attempt of a call
\* entered with a fired context, or the attempt after a wait whose select took
\* the timer), it ends without a subprocess, and the call then returns the
\* timeout error of the cancellation.
C6_NoSubprocessAfterFire ==
    /\ [](CtxDone(ctxErr) =>
            /\ calls <= obs.firedAtCalls + 1
            /\ (calls = obs.firedAtCalls + 1 /\ pc \in {"check", "done"}) =>
                    /\ proc = "none"
                    /\ onceResult.Error # NoErr
            /\ (calls = obs.firedAtCalls + 1 /\ pc = "done") =>
                    /\ ret = "cancelledAttempt"
                    /\ result.Error.Code = "ErrTimeout"
                    /\ result.Error.Cause = PlainErr(ctxErr))
    /\ [][CtxDone(ctxErr) => spawns' = spawns]_vars

\* C6 witness: an execution of executeOnce that began after the context had
\* fired during the wait, and started no subprocess.
C6_Witness ==
    /\ pc = "done" /\ CtxDone(ctxErr) /\ obs.firedInWait
    /\ calls = obs.firedAtCalls + 1
    /\ calls = 2 /\ spawns = 1
    /\ ret = "cancelledAttempt"

\* C7 (as stated): in every terminal result RetryCount is the number of
\* executions of executeOnce made by the call.
C7_RetryCountIsExecutions ==
    pc = "done" => result.RetryCount = calls

\* C7 (amended): in every terminal result RetryCount is the value of the loop
\* index at the return: one less than the number of executions made on
\* success, permanent failure and cancellation during an attempt; the number
\* of executions made on cancellation during the wait; MaxRetries on retry
\* exhaustion, which is one less than the number of executions made when
\* MaxRetries >= 0; and 0 for a rejected script.
C7_RetryCountIsLoopIndex ==
    pc = "done" =>
        /\ ret \in {"success", "permanent", "cancelledAttempt"} =>
                result.RetryCount = calls - 1 /\ calls >= 1
        /\ ret = "cancelledWait" => result.RetryCount = calls /\ calls >= 1
        /\ ret = "exhausted" =>
                /\ result.RetryCount = cfg.MaxRetries
                /\ cfg.MaxRetries >= 0 => calls = cfg.MaxRetries + 1
                /\ cfg.MaxRetries < 0 => calls = 0
        /\ ret = "rejected" => result.RetryCount = 0 /\ calls = 0
        /\ ret \in {"success", "permanent", "cancelledAttempt", "cancelledWait",
                    "exhausted", "rejected"}

\* C7 witness: a call cancelled during the wait before its third attempt,
\* after two executions.
C7_Witness ==
    /\ pc = "done" /\ ret = "cancelledWait"
    /\ calls = 2 /\ result.RetryCount = 2

\* C8: a script text made of blanks only (or empty) is rejected with a
\* domain error at entry: no execution of executeOnce, no subprocess, no wait.
C8_EmptyScriptRejected ==
    (pc # "call" /\ obs.blank) =>
        /\ pc = "done"
        /\ ret = "rejected"
        /\ script = <<>>
        /\ result.Error.kind = "domain"
        /\ result.Error.Code = "ErrInvalidOperation"
        /\ calls = 0 /\ spawns = 0 /\ waits = 0

\* C8 witness: a call of Execute rejected for a script of blanks.
C8_Witness ==
    /\ pc = "done" /\ obs.blank /\ ret = "rejected"
    /\ result.Error.Code = "ErrInvalidOperation"
    /\ req.api = "Execute"

\* C9 (as stated): every result a call returns has its elapsed duration
\* populated.
C9_DurationAlwaysPopulated ==
    pc = "done" => result.Duration # "unset"

\* C10 (as stated): when the deadline of an attempt passes while its
\* subprocess runs, the subprocess is killed before executeOnce returns, and
\* the attempt's error is a timeout error that carries the operation name and
\* the timeout length in its context.
C10_TimeoutKillsAndClassifies ==
    (pc = "check" /\ obs.deadlineKill) =>
        /\ proc = "killed"
        /\ onceResult.Error.kind = "domain"
        /\ onceResult.Error.Code = "ErrTimeout"
        /\ HasContext(onceResult.Error, "operation")
        /\ HasContext(onceResult.Error, "timeout_seconds")

\* C11 (as stated): an attempt whose subprocess exited with a non-zero code,
\* with neither its deadline nor the caller's context fired, returns a timeout
\* error for code 2, an operation-failed error whose message is the captured
\* standard-error text for code 1, and for any other code an operation-failed
\* error that holds the exit code in its context map.
C11_ExitCodeInContext ==
    (/\ pc = "check" /\ obs.onceRet = "wait" /\ proc = "exited"
     /\ pdata.code # 0 /\ ~pdata.io
     /\ obs.ectxAtReturn = "none" /\ obs.ctxAtReturn = "none")
    => LET e == onceResult.Error
       IN /\ e.kind = "domain"
          /\ pdata.code = 2 => e.Code = "ErrTimeout"
          /\ pdata.code = 1 => /\ e.Code = "ErrOperationFailed"
                               /\ e.Message.text = TrimSpace(pdata.stderr)
          /\ pdata.code \notin {1, 2} =>
                /\ e.Code = "ErrOperationFailed"
                /\ \E k \in DOMAIN e.Context : e.Context[k] = pdata.code

\* C11 (amended): such an attempt returns, for code 2, a timeout error that
\* carries the operation name and the timeout length in its context; for code
\* 1, an operation-failed error whose message holds the trimmed standard-error
\* text; for any other code, an operation-failed error whose message holds the
\* exit code and the trimmed standard-error text and whose context map is
\* empty.  In each case the cause is the exit error of the subprocess.
C11_ExitCodeInMessage ==
    (/\ pc = "check" /\ obs.onceRet = "wait" /\ proc = "exited"
     /\ pdata.code # 0 /\ ~pdata.io
     /\ obs.ectxAtReturn = "none" /\ obs.ctxAtReturn = "none")
    => LET e == onceResult.Error
       IN /\ e.kind = "domain"
          /\ e.Cause = ExitError(pdata.code)
          /\ pdata.code = 2 =>
                /\ e.Code = "ErrTimeout"
                /\ DOMAIN e.Context = {"operation", "timeout_seconds"}
                /\ e.Context["timeout_seconds"] = NewDurationFromTime(req.timeout)
          /\ pdata.code = 1 =>
                /\ e.Code = "ErrOperationFailed"
                /\ e.Message = Msg("AppleScript execution failed: %s", "", TrimSpace(pdata.stderr), 0)
                /\ e.Context = EmptyContext
          /\ pdata.code \notin {1, 2} =>
                /\ e.Code = "ErrOperationFailed"
                /\ e.Message.number = pdata.code
                /\ e.Message.text = TrimSpace(pdata.stderr)
                /\ e.Context = EmptyContext

\* C11 witness: a subprocess that exited with a code other than 1 and 2 and
\* wrote to its standard error, neither context fired.
C11_Witness ==
    /\ pc = "check" /\ obs.onceRet = "wait" /\ proc = "exited"
    /\ pdata.code = 3 /\ pdata.stderr = <<" ", "a">>
    /\ obs.ectxAtReturn = "none" /\ obs.ctxAtReturn = "none"
    /\ onceResult.Error.Message.number = 3
    /\ onceResult.Error.Message.text = <<"a">>

\* C12: an execution of executeOnce starts at most one subprocess and never
\* goes back to an earlier step; whenever executeOnce is not executing, the
\* subprocess it started has terminated (exited, or killed and reaped) or
\* none was started: after a pipe or start failure there is no subprocess,
\* after a write failure or cmd.Wait the subprocess is gone.
C12_OneSubprocessPerCall ==
    /\ [](/\ spawns <= calls
          /\ opc = "idle" => proc \in {"none", "exited", "killed"}
          /\ (pc = "check" /\ obs.onceRet \in {"pipe", "start"}) => proc = "none"
          /\ (pc = "check" /\ obs.onceRet \in {"write", "wait"}) => proc \in {"exited", "killed"})
    /\ [][spawns' # spawns =>
            /\ spawns' = spawns + 1
            /\ opc = "start" /\ opc' = "write"
            /\ calls' = calls]_vars
    /\ [][(opc' = "start" /\ opc # "start") => (opc = "begin" /\ calls' = calls + 1)]_vars
    /\ [][(opc' # opc) =>
            <<opc, opc'>> \in {<<"idle", "begin">>, <<"begin", "start">>, <<"begin", "idle">>,
                               <<"start", "write">>, <<"start", "idle">>,
                               <<"write", "waitproc">>, <<"write", "idle">>,
                               <<"waitproc", "idle">>}]_vars

\* C12 witness: the second attempt of a call returned from cmd.Wait after its
\* deadline had killed the running subprocess; both attempts started one.
C12_Witness ==
    /\ pc = "check" /\ obs.onceRet = "wait" /\ obs.deadlineKill
    /\ proc = "killed"
    /\ calls = 2 /\ spawns = 2

\* C13 (as stated): under every interleaving of concurrent calls the executor
\* configuration is never written after construction, and no call loads an
\* executable path stored by another call.
C13_ConfigReadOnly ==
    /\ cfgWriter = 0
    /\ cfg \in Configs
    /\ \A t \in Threads :
          threads[t].api # "IsExecutable" =>
              threads[t].cmdPath \in {"", "maestro-exec"}

\* C14: whatever the category of an error, the classifications retryable and
\* permanent are never both true; and they are not exhaustive: for the
\* not-found categories (track, playlist) both are false.
C14_ExclusiveNotExhaustive ==
    tq.by # "none" =>
        /\ ~(tq.retryable /\ tq.permanent)
        /\ (IsDomain(terr) /\ terr.Code \in {"ErrTrackNotFound", "ErrPlaylistNotFound"})
              => (~tq.retryable /\ ~tq.permanent)

\* C14 witness: a track-not-found DomainError asked through its methods
\* answered neither retryable nor permanent.
C14_Witness ==
    /\ tq.by = "method"
    /\ terr = NewDomainError("ErrTrackNotFound", Text("test message"))
    /\ ~tq.retryable /\ ~tq.permanent

\* C15 (as stated): player-not-available, library-not-available, timeout and
\* operation-failed are retryable and not permanent; invalid-operation,
\* invalid-track-id, invalid-volume, invalid-position, invalid-repeat-mode,
\* permission-denied and read-only are permanent and not retryable.
C15_Membership ==
    (tq.by = "method") =>
        /\ terr.Code \in {"ErrPlayerNotAvailable", "ErrLibraryNotAvailable",
                           "ErrTimeout", "ErrOperationFailed"}
              => (tq.retryable /\ ~tq.permanent)
        /\ terr.Code \in {"ErrInvalidOperation", "ErrInvalidTrackID", "ErrInvalidVolume",
                           "ErrInvalidPosition", "ErrInvalidRepeatMode",
                           "ErrPermissionDenied", "ErrPlaylistReadOnly"}
              => (tq.permanent /\ ~tq.retryable)

\* C16 (as stated): for a line whose number of fields is not 6 the player
\* state decoder returns no snapshot and an operation-failed error that names
\* the expected field count; the track decoder does the same for a non-empty
\* text whose number of fields is not 5.
C16_MismatchNamesCount ==
    /\ (dret.decoder = "parsePlayerState" /\ Len(din.fields) # 6) =>
            /\ dret.value = <<>>
            /\ dret.err.kind = "domain"
            /\ dret.err.Code = "ErrOperationFailed"
            /\ dret.err.Message.number = 6
    /\ (dret.decoder = "parseTrack" /\ Len(din.fields) # 5 /\ xresult.Output # <<>>) =>
            /\ dret.value = <<>>
            /\ dret.err.kind = "domain"
            /\ dret.err.Code = "ErrOperationFailed"
            /\ dret.err.Message.number = 5

\* C16 (amended): for a line whose number of fields is not 6 the player state
\* decoder returns no snapshot and an operation-failed error with the fixed
\* message "invalid player state format", without cause or context; the
\* track decoder does the same, with "invalid track format", for every text
\* (the empty one included) whose number of fields is not 5.  Neither message
\* is returned for a line of the expected number of fields.
C16_MismatchIsOperationFailed ==
    /\ dret.decoder = "parsePlayerState" =>
            (Len(din.fields) # 6 <=>
                /\ dret.value = <<>>
                /\ dret.err = NewDomainError("ErrOperationFailed",
                                    Text("invalid player state format")))
    /\ dret.decoder = "parseTrack" =>
            (Len(din.fields) # 5 <=>
                /\ dret.value = <<>>
                /\ dret.err = NewDomainError("ErrOperationFailed",
                                    Text("invalid track format")))

\* C16 witness: a line of 5 fields given to the player state decoder.
C16_Witness ==
    /\ dret.op = "parsePlayerState" /\ Len(din.fields) = 5
    /\ dret.value = <<>>
    /\ dret.err.Code = "ErrOperationFailed"
    /\ dret.err.Message = Text("invalid player state format")

\* C17 (as stated): in a line of 6 fields that decodes, the state field read
\* without regard to case as stopped, playing, paused or buffering gives the
\* state of that name, and any other text gives stopped; the repeat field
\* read likewise as off, all or one gives that mode, any other text gives off.
C17_StateAndRepeatMapping ==
    (dret.decoder = "parsePlayerState" /\ Len(din.fields) = 6 /\ dret.err = NoErr) =>
        LET st == ToLower(din.fields[1])
            rp == ToLower(din.fields[5])
            player == dret.value[1]
        IN /\ st = Lit.stopped => player.State = "stopped"
           /\ st = Lit.playing => player.State = "playing"
           /\ st = Lit.paused => player.State = "paused"
           /\ st = Lit.buffering => player.State = "buffering"
           /\ st \notin {Lit.stopped, Lit.playing, Lit.paused, Lit.buffering}
                => player.State = "stopped"
           /\ rp = Lit.off => player.Repeat = "off"
           /\ rp = Lit.all => player.Repeat = "all"
           /\ rp = Lit.one => player.Repeat = "one"
           /\ rp \notin {Lit.off, Lit.all, Lit.one} => player.Repeat = "off"

\* C18 (as stated): a volume field that is not a number, a position field
\* that is neither the sentinel text nor a number, and a track duration field
\* that is not a number each make the whole decode fail with an
\* operation-failed error and no snapshot or track.
C18_NonNumberFails ==
    /\ (dret.decoder = "parsePlayerState" /\ Len(din.fields) = 6
         /\ (\/ din.fields[2] \notin NumberTexts
             \/ din.fields[3] \notin NumberTexts \cup {Lit.missing})) =>
            /\ dret.value = <<>>
            /\ dret.err.kind = "domain"
            /\ dret.err.Code = "ErrOperationFailed"
    /\ (dret.decoder = "parseTrack" /\ Len(din.fields) = 5
         /\ din.fields[5] \notin NumberTexts) =>
            /\ dret.value = <<>>
            /\ dret.err.kind = "domain"
            /\ dret.err.Code = "ErrOperationFailed"

\* C18 (amended): in a line of 6 fields, a volume field that is not an
\* integer fails the decode with "invalid volume format"; with an integer
\* volume, a position field that is neither the sentinel text, nor empty, nor
\* a number fails it with "invalid position format", and an empty position
\* field decodes to position 0.  In a line of 5 fields, a duration field that
\* is not a number fails the decode with "invalid track duration format".
\* Each failure is an operation-failed error without snapshot or track.
C18_StrictNumeric ==
    /\ (dret.decoder = "parsePlayerState" /\ Len(din.fields) = 6) =>
            /\ din.fields[2] \notin IntegerTexts =>
                    /\ dret.value = <<>>
                    /\ dret.err = NewDomainError("ErrOperationFailed",
                                        Text("invalid volume format"))
            /\ (/\ din.fields[2] \in IntegerTexts
                /\ din.fields[3] \notin NumberTexts \cup {Lit.missing, <<>>}) =>
                    /\ dret.value = <<>>
                    /\ dret.err = NewDomainError("ErrOperationFailed",
                                        Text("invalid position format"))
            /\ (din.fields[2] \in IntegerTexts /\ din.fields[3] = <<>>) =>
                    /\ dret.err = NoErr
                    /\ dret.value # <<>>
                    /\ dret.value[1].Position = 0
    /\ (dret.decoder = "parseTrack" /\ Len(din.fields) = 5
         /\ din.fields[5] \notin NumberTexts) =>
            /\ dret.value = <<>>
            /\ dret.err = NewDomainError("ErrOperationFailed",
                                Text("invalid track duration format"))

\* C18 witness: a line with an integer volume whose position field is a text
\* that is neither a number nor the sentinel.
C18_Witness ==
    /\ dret.op = "parsePlayerState" /\ Len(din.fields) = 6
    /\ din.fields[2] = Sample.n50 /\ din.fields[3] = Sample.x
    /\ dret.value = <<>>
    /\ dret.err.Message = Text("invalid position format")

\* C19: a line of 6 fields whose position field is "missing value" decodes,
\* when its volume is an integer, to a snapshot with position 0; its outcome
\* is that of the same line with a numeric position, the position apart.
C19_MissingValueIsZero ==
    (dret.decoder = "parsePlayerState" /\ Len(din.fields) = 6
     /\ din.fields[3] = Lit.missing) =>
        LET twin == ParsePlayerState(Join([din.fields EXCEPT ![3] = Sample.n7]))
        IN /\ din.fields[2] \in IntegerTexts => dret.err = NoErr
           /\ dret.err = twin.err
           /\ dret.err = NoErr =>
                /\ dret.value # <<>>
                /\ dret.value[1].Position = 0
                /\ twin.value[1].Position = 7
                /\ dret.value[1] = [twin.value[1] EXCEPT !.Position = 0]

\* C19 witness: "Playing|50|missing value|TRUE|All|T1" decoded.
C19_Witness ==
    /\ dret.op = "parsePlayerState"
    /\ din.fields = <<Sample.Playing, Sample.n50, Lit.missing, Sample.TRUE, Sample.All,
                      Sample.id>>
    /\ dret.err = NoErr
    /\ dret.value[1] = [State |-> "playing", CurrentTrack |-> <<Sample.id>>, Position |-> 0,
                        Volume |-> 50, Shuffle |-> TRUE, Repeat |-> "all"]

\* C20: GetCurrentTrack returns (nil, nil) exactly when its query succeeded
\* with an output that is empty once trimmed, and then without calling the
\* track decoder; every other outcome has a track or an error.
C20_EmptyOutputIsAbsence ==
    dret.op = "GetCurrentTrack" =>
        /\ (xresult.Error = NoErr /\ \A i \in DOMAIN xresult.Output : xresult.Output[i] = " ")
            <=> (dret.value = <<>> /\ dret.err = NoErr)
        /\ (dret.value = <<>> /\ dret.err = NoErr) => dret.decoder = "none"
        /\ xresult.Error # NoErr => (dret.value = <<>> /\ dret.err.Cause = xresult.Error)

\* C20 witness: a successful query with an empty output.
C20_Witness ==
    /\ dret.op = "GetCurrentTrack"
    /\ xresult = [Output |-> <<>>, Error |-> NoErr]
    /\ dret.value = <<>> /\ dret.err = NoErr /\ dret.decoder = "none"

\* C21: a query or decode of the player state returns either a snapshot with
\* all six values set and no error, or no snapshot and a classified error;
\* a query or decode of the track returns a track with identifier, title and
\* artist and no error, or nothing and a classified error, or (GetCurrentTrack
\* on an empty output only) nothing and no error.  A failed execution and a
\* line that cannot be decoded never come back with an object.
C21_ObjectOrError ==
    dret.op # "none" =>
        /\ ~(dret.value # <<>> /\ dret.err # NoErr)
        /\ dret.err # NoErr => (dret.err.kind = "domain" /\ dret.err.Code \in Codes)
        /\ xresult.Error # NoErr => (dret.value = <<>> /\ dret.err # NoErr)
        /\ dret.op \in {"GetCurrentState", "parsePlayerState"} =>
              /\ dret.value # <<>> \/ dret.err # NoErr
              /\ Len(din.fields) # 6 => dret.value = <<>>
              /\ dret.value # <<>> =>
                    /\ DOMAIN dret.value[1] = {"State", "CurrentTrack", "Position",
                                               "Volume", "Shuffle", "Repeat"}
                    /\ dret.value[1].State \in {"stopped", "playing", "paused", "buffering"}
                    /\ dret.value[1].Volume \in 0..100
                    /\ dret.value[1].Position >= 0
                    /\ dret.value[1].Shuffle \in BOOLEAN
                    /\ dret.value[1].Repeat \in {"off", "all", "one"}
                    /\ dret.value[1].CurrentTrack \in {<<>>, <<din.fields[6]>>}
                    /\ dret.value[1].CurrentTrack = <<>> <=> din.fields[6] = <<>>
        /\ dret.op \in {"GetCurrentTrack", "parseTrack"} =>
              /\ (dret.value = <<>> /\ dret.err = NoErr) =>
                    (dret.op = "GetCurrentTrack" /\ xresult.Output = <<>>)
              /\ Len(din.fields) # 5 => dret.value = <<>>
              /\ dret.value # <<>> =>
                    /\ dret.value[1].ID # <<>>
                    /\ dret.value[1].Title # <<>>
                    /\ dret.value[1].Artist # <<>>
                    /\ dret.value[1].Duration >= 0

\* C21 witness: GetCurrentState on a line whose volume is not an integer
\* returned the error and no snapshot.
C21_Witness ==
    /\ dret.op = "GetCurrentState" /\ dret.decoder = "parsePlayerState"
    /\ Len(din.fields) = 6 /\ din.fields[2] = Sample.x
    /\ dret.value = <<>>
    /\ dret.err.Message = Text("invalid volume format")

\* C22 (as stated): a well-formed line of six fields (state and repeat names
\* of the enumerations, a whole volume in 0..100, a whole position >= 0, a
\* shuffle flag true or false) decodes into a snapshot holding exactly the six
\* values the fields spell, the track reference absent iff the sixth is empty.
C22_WellFormedDecodesExactly ==
    (dret.decoder = "parsePlayerState" /\ din.fields \in WellFormedLines) =>
        /\ dret.err = NoErr
        /\ dret.value =
             <<[State |-> ValueOf(StateNames, din.fields[1]),
                Volume |-> ValueOf(VolumeTexts, din.fields[2]),
                Position |-> ValueOf(PositionTexts, din.fields[3]),
                Shuffle |-> ValueOf(ShuffleTexts, din.fields[4]),
                Repeat |-> ValueOf(RepeatNames, din.fields[5]),
                CurrentTrack |-> IF din.fields[6] = <<>> THEN <<>> ELSE <<din.fields[6]>>]>>

\* C23: NewVolume(x) has the level min(100, max(0, x)) for every int x; a
\* level of 0..100 written as decimal text and read back is the same level;
\* Increase and Decrease by any int amount, negative ones and ones whose sum
\* overflows included, give a level within 0..100.
C23_VolumeClamps ==
    /\ vol.level \in 0..100
    /\ vop.op = "NewVolume" =>
          vol.level = (IF vop.arg > 100 THEN 100 ELSE IF vop.arg < 0 THEN 0 ELSE vop.arg)
    /\ vop.op # "RoundTripFailed"
    /\ vop.op = "RoundTrip" => vol.level = vop.before
    /\ (vop.op = "Increase" /\ vop.before + vop.arg \in Ints) =>
          vol.level = (IF vop.before + vop.arg > 100 THEN 100
                       ELSE IF vop.before + vop.arg < 0 THEN 0 ELSE vop.before + vop.arg)
    /\ (vop.op = "Decrease" /\ vop.before - vop.arg \in Ints) =>
          vol.level = (IF vop.before - vop.arg > 100 THEN 100
                       ELSE IF vop.before - vop.arg < 0 THEN 0 ELSE vop.before - vop.arg)

\* C23 witness: an Increase whose sum overflowed the int left the level at 0.
C23_Witness ==
    /\ vop.op = "Increase"
    /\ vop.before = 100
    /\ vop.before + vop.arg > MaxInt
    /\ vol.level = 0

\* C24: NewTrack returns a track exactly when identifier, title and artist
\* are not empty and the duration is >= 0, whatever the album; otherwise it
\* returns no track and a domain error, invalid-track-id when the identifier
\* is empty and invalid-track in the other cases.  A track that parseTrack
\* returns has an identifier, a title and an artist.
C24_TrackConstruction ==
    /\ trkRet.op = "NewTrack" =>
          LET valid == /\ trkIn.id # <<>> /\ trkIn.title # <<>> /\ trkIn.artist # <<>>
                       /\ trkIn.seconds >= 0
          IN /\ valid <=> (trkRet.value # <<>> /\ trkRet.err = NoErr)
             /\ valid =>
                   trkRet.value = <<[ID |-> trkIn.id, Title |-> trkIn.title,
                                     Artist |-> trkIn.artist, Album |-> trkIn.album,
                                     Duration |-> trkIn.seconds]>>
             /\ ~valid =>
                   /\ trkRet.value = <<>>
                   /\ trkRet.err.kind = "domain"
                   /\ trkRet.err.Code = (IF trkIn.id = <<>> THEN "ErrInvalidTrackID"
                                         ELSE "ErrInvalidTrack")
    /\ (trkRet.op = "parseTrack" /\ trkRet.value # <<>>) =>
          /\ trkRet.err = NoErr
          /\ trkRet.value[1].ID # <<>>
          /\ trkRet.value[1].Title # <<>>
          /\ trkRet.value[1].Artist # <<>>
          /\ trkRet.value[1].Duration >= 0

\* C24 witness: NewTrack with an empty album and a duration of 0 built the
\* track.
C24_Witness ==
    /\ trkRet.op = "NewTrack"
    /\ trkIn.album = <<>> /\ trkIn.id # <<>> /\ trkIn.seconds = 0
    /\ trkRet.value # <<>>
    /\ trkRet.value[1].Album = <<>>

\* C25: when no file is stored under the template name, ExecuteTemplate
\* returns an operation-failed error, Execute is never called, no attempt
\* begins and no subprocess is started.
C25_MissingTemplateFails ==
    (tplIn.name \notin DOMAIN Stored /\ tpl.pc # "none") =>
        /\ pc = "caller"
        /\ calls = 0
        /\ spawns = 0
        /\ tpl.passed = <<>>
        /\ tpl.pc = "done" =>
              /\ tpl.ret.Error.kind = "domain"
              /\ tpl.ret.Error.Code = "ErrOperationFailed"
              /\ tpl.ret.Output = <<>>

\* C25 witness: ExecuteTemplate returned for a template name without a file.
C25_Witness ==
    /\ tplIn.name = "nosuch"
    /\ tpl.pc = "done"
    /\ tpl.ret.Error.Message = Text("failed to load script template")
    /\ tpl.ret.Error.Cause.Cause = PlainErr("open")

\* C26 (as stated): the text ExecuteTemplate passes to Execute is the stored
\* template with every placeholder of a supplied key replaced by the value
\* of that key rendered as text and every other placeholder left as it is.
C26_PlaceholdersReplaced ==
    tpl.passed # <<>> =>
        /\ tplIn.name \in DOMAIN Stored
        /\ tpl.passed[1] = Resolved(Stored[tplIn.name], tplIn.params)

\* C27 (as stated): maestro-exec exits 0 only after osascript ended with
\* success and its output is on standard output; it exits 2 exactly when the
\* execution of the script timed out, that is, when osascript was still
\* running at the deadline; it exits 1 for every other failure (read error,
\* empty script, failed execution), with the reason on standard error.
C27_ExitCodeProtocol ==
    mainRun.pc = "exited" =>
        /\ mainRun.exit \in {exitSuccess, exitError, exitTimeout}
        /\ mainRun.exit = exitSuccess =>
              /\ mainRun.proc = "exited" /\ mainRun.pout.code = 0
              /\ mainRun.stdout = mainRun.pout.stdout
        /\ mainRun.exit = exitTimeout <=> mainRun.timedOut
        /\ mainRun.exit = exitError =>
              \/ mainIn.readErr
              \/ mainRun.script = <<>>
              \/ mainRun.err # "none"
        /\ mainRun.exit # exitSuccess => mainRun.stderr # Text("")

\* C28: after any sequence of WithContext calls on a domain error,
\* GetContext(k) returns the value of the latest call made for k and reports
\* absence for every key no call has set;
\* every WithContext returned the error it was called on, with the code, the
\* message and the cause it had before the call.
C28_ContextLastWriteWins ==
    LET CallsFor(k) == {i \in DOMAIN clog : clog[i].key = k}
        Latest(k) == CHOOSE i \in CallsFor(k) : \A j \in CallsFor(k) : j <= i
    IN /\ cret.op = "GetContext" =>
            /\ CallsFor(cret.key) # {} =>
                  (cret.exists /\ cret.value = clog[Latest(cret.key)].value)
            /\ CallsFor(cret.key) = {} => ~cret.exists
       /\ cret.op = "WithContext" =>
            /\ cret.ptr = 1
            /\ Len(objs) = 1
            /\ objs[1].Code = clog[Len(clog)].before.Code
            /\ objs[1].Message = clog[Len(clog)].before.Message
            /\ objs[1].Cause = clog[Len(clog)].before.Cause

\* C28 witness: a key set twice with different values reads as the second.
C28_Witness ==
    /\ Len(clog) = 3
    /\ clog[1].key = "track_id" /\ clog[1].value = "track-123"
    /\ clog[2].key = "user_id"
    /\ clog[3].key = "track_id" /\ clog[3].value = "user-456"
    /\ cret.op = "GetContext" /\ cret.key = "track_id"
    /\ cret.exists /\ cret.value = "user-456"

C30_EventuallyReturns ==
    <>[](/\ pc = "done"
         /\ ret \in {"success", "permanent", "exhausted", "cancelledWait",
                      "cancelledAttempt", "rejected"}
         /\ ret = "success" <=> result.Error = NoErr
         /\ proc # "running")

\* C30 witness: a call that used all its attempts and waits has returned.
C30_Witness ==
    /\ pc = "done" /\ ret = "exhausted"
    /\ cfg.MaxRetries = MaxMaxRetries
    /\ calls = MaxMaxRetries + 1 /\ waits = MaxMaxRetries

\* C31: attempts are strictly sequential and bounded: an attempt begins only
\* when no subprocess of an earlier attempt is still running and no earlier
\* attempt is unfinished, and the number of attempts begun never exceeds
\* MaxRetries + 1 (nor the number of subprocesses the number of attempts).
C31_SequentialBoundedAttempts ==
    [][/\ calls' = calls + 1 =>
            /\ proc # "running"
            /\ Len(hist) = calls
       /\ spawns' = spawns + 1 => (proc # "running" /\ spawns' <= calls')
       /\ calls' <= cfg.MaxRetries + 1 \/ calls' = 0]_vars

\* C31 witness: the subprocess of the last permitted attempt is running, the
\* subprocesses of all earlier attempts having ended.
C31_Witness ==
    /\ cfg.MaxRetries = MaxMaxRetries
    /\ calls = MaxMaxRetries + 1 /\ spawns = calls
    /\ proc = "running"
    /\ Len(hist) = MaxMaxRetries

\* C32 (as stated): the package-level IsRetryable and IsPermanent answer for a
\* bare category sentinel as they answer for a DomainError carrying that
\* category, for every category, and answer false twice for an error that
\* belongs to no category.
C32_SentinelSameAsDomain ==
    (tq.by = "package") =>
        /\ terr.kind = "sentinel" =>
              /\ tq.retryable = IsRetryable(NewDomainError(terr.Code, Text("test message")))
              /\ tq.permanent = IsPermanent(NewDomainError(terr.Code, Text("test message")))
        /\ (~IsDomain(terr) /\ terr.kind # "sentinel") =>
              (~tq.retryable /\ ~tq.permanent)

\* the fields of a Player that Pause and Resume never touch
PlayerSettings(p) == <<p.CurrentTrack, p.Position, p.Volume, p.Shuffle, p.Repeat>>

\* C33: Pause changes the state only from playing, to paused, and Resume only
\* from paused, to playing; in every other state they leave the Player
\* unchanged in every field; neither changes the current track, position,
\* volume, shuffle or repeat. Stop always leaves the state stopped, no
\* current track and position zero.
C33_GuardedTransitions ==
    /\ pop.op = "Pause" =>
          /\ pop.before[1].State = "playing" => plr.State = "paused"
          /\ pop.before[1].State # "playing" => plr = pop.before[1]
          /\ PlayerSettings(plr) = PlayerSettings(pop.before[1])
    /\ pop.op = "Resume" =>
          /\ pop.before[1].State = "paused" => plr.State = "playing"
          /\ pop.before[1].State # "paused" => plr = pop.before[1]
          /\ PlayerSettings(plr) = PlayerSettings(pop.before[1])
    /\ pop.op = "Stop" =>
          /\ plr.State = "stopped"
          /\ plr.CurrentTrack = <<>>
          /\ plr.Position = 0

\* C33 witness: Pause was called on a stopped Player that an earlier call had
\* changed, and left it as it was, time of the last update included.
C33_Witness ==
    /\ pop.op = "Pause"
    /\ pop.n = 3
    /\ pop.before[1].State = "stopped"
    /\ pop.before[1].LastUpdated = 2
    /\ plr = pop.before[1]

\* C40: after any sequence of Play, Pause, Resume, Stop, SetVolume,
\* SetPosition, SetShuffle and SetRepeat on a Player made by NewPlayer, a
\* stopped Player has no current track, a paused Player was playing before
\* (and the call that made it paused found it playing), and the volume is
\* within 0..100: SetVolume with a level outside that range returns an error
\* and changes nothing.
C40_PlayerInvariants ==
    /\ plr.State = "stopped" => plr.CurrentTrack = <<>>
    /\ plr.State = "paused" =>
          /\ pop.played
          /\ pop.before[1].State \in {"playing", "paused"}
    /\ plr.Volume \in 0..100
    /\ (pop.op = "SetVolume" /\ pop.arg[1] \notin 0..100) =>
          /\ pop.err # NoErr
          /\ pop.err.Code = "ErrInvalidVolume"
          /\ plr = pop.before[1]

\* C40 witness: SetVolume with the level 150 on a paused Player whose volume an
\* earlier SetVolume had made 75 returned the error; the Player is as before.
C40_Witness ==
    /\ pop.op = "SetVolume"
    /\ pop.arg = <<150>>
    /\ pop.err # NoErr
    /\ plr.State = "paused"
    /\ plr.Volume = 75
    /\ plr = pop.before[1]

\* the place, among the calls that returned nil, of the last one made with a
\* TrackID (0: none)
LastDone(id) ==
    LET I == {k \in 1..Len(lop.done) : lop.done[k].id = id}
    IN IF I = {} THEN 0 ELSE CHOOSE k \in I : \A m \in I : m <= k

\* C34: after any sequence of AddTrack and RemoveTrack calls on a Playlist
\* made by NewPlaylist, no identifier occurs twice in the track list, none is
\* empty, the list holds exactly the identifiers whose last successful call
\* was an AddTrack, in the order of those calls; an AddTrack of an identifier
\* that is present fails with track-already-present.
C34_NoDuplicatesInOrder ==
    pls # <<>> =>
        LET tracks == pls[1].Tracks
        IN /\ \A i, j \in 1..Len(tracks) : tracks[i] = tracks[j] => i = j
           /\ \A i \in 1..Len(tracks) : tracks[i] # <<>>
           /\ \A t \in {NewTrackID(x) : x \in TrackIDTexts} :
                 (\E i \in 1..Len(tracks) : tracks[i] = t)
                    <=> (LastDone(t) # 0 /\ lop.done[LastDone(t)].op = "AddTrack")
           /\ \A i, j \in 1..Len(tracks) :
                 i < j => LastDone(tracks[i]) < LastDone(tracks[j])
           /\ (lop.op = "AddTrack"
                /\ \E i \in 1..Len(lop.before[1].Tracks) : lop.before[1].Tracks[i] = lop.arg)
                 => (lop.err # NoErr /\ lop.err.Code = "ErrTrackAlreadyInPlaylist"
                     /\ tracks = lop.before[1].Tracks)

\* C34 witness: a, b were added, a was removed and added again: the list is
\* b, a.
C34_Witness ==
    /\ pls # <<>>
    /\ pls[1].Tracks = <<<<"b">>, <<"a">>>>
    /\ lop.op = "AddTrack"
    /\ Len(lop.done) = 4

\* C34 second case: an AddTrack of a present identifier, spelled with a
\* trailing blank, was refused.
C34_DuplicateRefused ==
    /\ lop.op = "AddTrack"
    /\ lop.err # NoErr
    /\ lop.err.Code = "ErrTrackAlreadyInPlaylist"

\* C35: on a read-only Playlist AddTrack and RemoveTrack always fail with the
\* read-only category, whatever the identifier (empty included); and every
\* AddTrack or RemoveTrack that fails (read-only, empty identifier, duplicate,
\* track not found) leaves the track list and ModifiedAt as they were.
C35_ReadOnlyFirstFailuresChangeNothing ==
    lop.op \in {"AddTrack", "RemoveTrack"} =>
        /\ lop.before[1].ReadOnly =>
              (lop.err # NoErr /\ lop.err.Code = "ErrPlaylistReadOnly")
        /\ lop.err # NoErr =>
              /\ lop.err.Code \in {"ErrPlaylistReadOnly", "ErrInvalidTrackID",
                                    "ErrTrackAlreadyInPlaylist", "ErrTrackNotFound"}
              /\ pls[1].Tracks = lop.before[1].Tracks
              /\ pls[1].ModifiedAt = lop.before[1].ModifiedAt
              /\ pls = lop.before
        /\ lop.err = NoErr => pls[1].ModifiedAt = lop.n

\* C35 witness: AddTrack with the empty identifier on a read-only Playlist
\* returned the read-only error.
C35_Witness ==
    /\ lop.op = "AddTrack"
    /\ lop.arg = <<>>
    /\ lop.before[1].ReadOnly
    /\ lop.err # NoErr
    /\ lop.err.Code = "ErrPlaylistReadOnly"
    /\ pls = lop.before

\* C36: every error executeOnce returns is a DomainError of category timeout
\* or operation-failed, hence retryable and not permanent; ExecuteWithTimeout
\* therefore never returns through its permanent short-circuit, and a call
\* that returns an error while its context has not fired (the empty script
\* aside) has made MaxRetries + 1 attempts.
C36_AttemptErrorsRetryable ==
    /\ onceResult.Error # NoErr =>
          /\ IsDomain(onceResult.Error)
          /\ onceResult.Error.Code \in {"ErrTimeout", "ErrOperationFailed"}
          /\ IsRetryable(onceResult.Error)
          /\ ~IsPermanent(onceResult.Error)
    /\ \A i \in DOMAIN hist : hist[i] \in {"ok", "retryable"}
    /\ ret # "permanent"
    /\ (pc = "done" /\ ret # "rejected" /\ result.Error # NoErr /\ ~CtxDone(ctxErr))
          => /\ ret = "exhausted"
             /\ calls = cfg.MaxRetries + 1
             /\ Len(hist) = calls

\* C36 witness: a script whose subprocess exits with code 1 at every attempt
\* was run MaxRetries + 1 times, with the largest MaxRetries explored.
C36_Witness ==
    /\ pc = "done" /\ ret = "exhausted" /\ ~CtxDone(ctxErr)
    /\ cfg.MaxRetries = MaxMaxRetries
    /\ calls = MaxMaxRetries + 1 /\ spawns = calls
    /\ onceResult.Error.Code = "ErrOperationFailed"
    /\ onceResult.Error.Cause = ExitError(1)
    /\ \A i \in DOMAIN hist : hist[i] = "retryable"

\* C37 (as stated): whenever ExecuteWithTimeout returns the retries-exhausted
\* operation-failed error, at least one attempt was made and the error wraps
\* a cause that is not nil and is the error of the last attempt, whatever the
\* integer MaxRetries is (0 and negative values included).
C37_ExhaustedHasCause ==
    (pc = "done" /\ ret = "exhausted") =>
        /\ result.Error.Code = "ErrOperationFailed"
        /\ calls >= 1
        /\ result.Error.Cause # NoErr
        /\ result.Error.Cause = onceResult.Error

\* C38: IsRetryable and IsPermanent classify a wrapped error by the category
\* of the outermost DomainError of its chain only: the answers for an error
\* with a cause are those for the same category without a cause, and an
\* operation-failed error whose cause is permanent or unclassified is
\* retryable and not permanent; so are the retries-exhausted error of
\* ExecuteWithTimeout and the error PlayerRepository.Play returns for a failed
\* execution, whatever they wrap.
C38_OutermostDecides ==
    /\ (tq.by = "package" /\ IsDomain(terr)) =>
          /\ tq.retryable = IsRetryable(NewDomainError(terr.Code, terr.Message))
          /\ tq.permanent = IsPermanent(NewDomainError(terr.Code, terr.Message))
          /\ terr.Code = "ErrOperationFailed" => (tq.retryable /\ ~tq.permanent)
    /\ (tq.by = "package" /\ WrapDepth(terr) = 0) =>
          \A m \in -1..MaxMaxRetries :
              /\ IsRetryable(ExhaustedResult(m, terr).Error)
              /\ ~IsPermanent(ExhaustedResult(m, terr).Error)
              /\ IsRetryable(PlayFailed(Sample.id, ExhaustedResult(m, terr).Error))
              /\ ~IsPermanent(PlayFailed(Sample.id, ExhaustedResult(m, terr).Error))
              /\ IsRetryable(PlayFailed(Sample.id, terr))
              /\ ~IsPermanent(PlayFailed(Sample.id, terr))

\* C38 witness: an operation-failed error that wraps a permission-denied
\* DomainError was classified by the package: retryable, not permanent.
C38_Witness ==
    /\ tq.by = "package"
    /\ IsDomain(terr)
    /\ terr.Code = "ErrOperationFailed"
    /\ terr.Cause = NewDomainError("ErrPermissionDenied", Text("test message"))
    /\ IsPermanent(terr.Cause)
    /\ tq.retryable /\ ~tq.permanent

\* C39 (as stated): the text ExecuteTemplate resolves is a function of the
\* template and the parameter map: whatever the order in which the range over
\* the map visits the parameters, the text handed to Execute is the same,
\* also when a parameter value contains the placeholder of another supplied
\* parameter.
C39_OrderIndependent ==
    tpl.passed # <<>> =>
        \A o \in Orders(DOMAIN tplIn.params) :
            Substitute(LoadScript(tplIn.name, tplIn.callerOk).text, tplIn.params, o)
                = tpl.passed[1]

====
